---- MODULE Spec2Model ----
(***************************************************************************)
(* Tick-data acquisition pipeline of database/data/raw:                    *)
(*   fetch_tick_data.py  - the Fetch Client (semaphore, retry, backoff)    *)
(*   store_tick_data.py  - the Partitioned Store (merge-on-write)          *)
(*   parallel_patch.py   - the Gap-Repair pipeline                         *)
(*   batch_update.py     - the Fetch Orchestrator                          *)
(*   scanner.py          - the Integrity Scanner                           *)
(* The specifications share the variables: SpecFetch (SpecFetchFair with   *)
(* fair scheduling) runs concurrent fetch_tick_data_for_day calls,         *)
(* SpecStore a sequence of store_tick_data calls on one store file,        *)
(* SpecRepair one run of parallel_patch.main, SpecBatch (SpecBatchFair     *)
(* with fair scheduling) one run of batch_update.main, SpecScan one run    *)
(* of scanner.main.                                                        *)
(***************************************************************************)
EXTENDS Integers, Sequences, FiniteSets, TLC

\* ------------------------------------------------------------------ bounds
\* Number of concurrent tasks calling fetch_tick_data_for_day.
NumTasks == 2
\* Capacity of FETCH_SEMAPHORE (env MAX_CONCURRENT_FETCHES, default 6).
MAX_CONCURRENT_FETCHES == 1
\* Attempts per call (env FETCH_MAX_RETRIES, default 3).
FETCH_MAX_RETRIES == 3

Tasks == 1..NumTasks

VARIABLES
    FETCH_SEMAPHORE, \* free slots of the process-wide BoundedSemaphore
    pc,              \* pc[t]: position of task t inside fetch_tick_data_for_day
    attempt,         \* attempt[t]: the local `attempt`
    acquired,        \* acquired[t]: the local `acquired`
    pending,         \* pending[t]: what the try block decided, carried through `finally`
    result,          \* result[t]: what the call gave its caller
    invocations,     \* invocations[t]: subprocess.run calls made by the call (history)
    onlyTimeouts,    \* onlyTimeouts[t]: every subprocess.run so far timed out (history)
    backoffs,        \* backoffs[t]: backoff sleeps the call has started (history)
    raw,             \* raw[i]: the canonical store file <raw_dir>/<i>_tick_data.h5
    lastCall,        \* the last store_tick_data call of SpecStore: its arguments and how it ended (history)
    phase,           \* position of parallel_patch.main
    all_tasks,       \* main's all_tasks: the (instrument, date) pairs of the CSV
    task_chunks,     \* main's task_chunks
    wpos,            \* wpos[w]: tasks worker w has gone through
    fetched,         \* fetched[w][j]: the rows worker w stored for its j-th task (history)
    temp,            \* temp[w]: the file temp_worker_<w-1>.h5
    merged,          \* temp files merge_hdf5_files has gone through
    final,           \* the file final_tick_data.h5
    fetched_dir,     \* the directory split_by_instrument exists
    split,           \* split[i]: the file split_by_instrument/<i>_tick_data.h5
    job,             \* job[i]: position of the merge_instrument_file job of instrument i
    jobKeys,         \* job[i]'s keys of fetched_store still to visit
    raw0,            \* the canonical stores as the run found them (history)
    bphase,          \* position of batch_update.main
    symbols_dates,   \* main's symbols_dates: the (symbol, last_date) rows of the CSV
    end_date,        \* main's end_date (--end-date)
    max_workers,     \* threads of main's ThreadPoolExecutor
    future,          \* future[t]: state of the run_fetch task of row t
    start_date,      \* start_date[t]: the local `start_date` of task t
    fetch_log,       \* fetch_log[t]: the days task t called the Fetch Client for (history)
    store_failed,    \* store_failed[t]: store_tick_data raised on a day of task t (history)
    sphase,          \* position of scanner.main
    h5,              \* h5[i]: the file 2015_tick_data/<i>_tick_data.h5 as h5py finds it
    scan_range,      \* scanner's start_date and end_date (--start-date, --end-date)
    scan_result,     \* scan_result[i]: how scan_hdf5 ended on the file of i (history)
    all_last_updates,   \* main's all_last_updates
    all_missing_groups, \* main's all_missing_groups
    all_missing_tables, \* main's all_missing_tables
    mphase,          \* position of a fetch_and_store_tick_data call
    manual_args,     \* the call's start_date, end_date, asset and store_func
    current,         \* the local `current`
    saved_days,      \* the local `saved_days`
    manual_log       \* the days fetched so far and how each went (history)

fetchVars == <<FETCH_SEMAPHORE, pc, attempt, acquired, pending, result,
               invocations, onlyTimeouts, backoffs>>

storeVars == <<raw, lastCall>>

repairVars == <<phase, all_tasks, task_chunks, wpos, fetched, temp, merged,
                final, fetched_dir, split, job, jobKeys, raw0>>

batchVars == <<bphase, symbols_dates, end_date, max_workers, future, start_date,
               fetch_log, store_failed>>

scanVars == <<sphase, h5, scan_range, scan_result, all_last_updates,
              all_missing_groups, all_missing_tables>>

manualVars == <<mphase, manual_args, current, saved_days, manual_log>>

\* What the actions of one component leave alone.
nonFetchVars == <<storeVars, repairVars, batchVars, scanVars, manualVars>>
nonStoreVars == <<fetchVars, repairVars, batchVars, scanVars, manualVars>>
nonRepairStoreVars == <<fetchVars, batchVars, scanVars, manualVars>>
nonBatchStoreVars == <<fetchVars, repairVars, scanVars, manualVars>>
nonManualStoreVars == <<fetchVars, repairVars, batchVars, scanVars>>

vars == <<fetchVars, storeVars, repairVars, batchVars, scanVars, manualVars>>

Max(a, b) == IF a >= b THEN a ELSE b
Min(a, b) == IF a <= b THEN a ELSE b

\* ------------------------------------------------- fetch_tick_data_for_day
\* Ways Popen can fail before a worker process exists.
LaunchFailures == {"FileNotFoundError", "OSError"}
\* Ways a launched worker process can end, as subprocess.run reports them.
\*   TimeoutExpired     the process outlived PROCESS_TIMEOUT
\*   nonzero            returncode != 0
\*   json_list          returncode 0, stdout a JSON array with ticks
\*   json_empty         returncode 0, stdout the empty JSON array '[]'
\*   no_output          returncode 0, nothing on stdout ('')
\*   json_other         returncode 0, stdout valid JSON that is no array
\*   JSONDecodeError    returncode 0, stdout not JSON
\*   UnicodeDecodeError stdout not decodable as text (text=True)
RunOutcomes == {"TimeoutExpired", "nonzero", "json_list", "json_empty", "no_output",
                "json_other", "JSONDecodeError", "UnicodeDecodeError"}

\* The value json.loads(result.stdout or '[]') gives for a stdout of the given
\* shape: the empty array also for no output, "default" telling that the
\* array is the one of `or '[]'`.
JsonLoads(o) ==
    CASE o = "json_list"  -> "list"
      [] o = "json_empty" -> "empty"
      [] o = "no_output"  -> "default"
      [] o = "json_other" -> "nonlist"

FetchIdle ==
    /\ FETCH_SEMAPHORE = MAX_CONCURRENT_FETCHES
    /\ pc = [t \in Tasks |-> "idle"]
    /\ attempt = [t \in Tasks |-> 0]
    /\ acquired = [t \in Tasks |-> FALSE]
    /\ pending = [t \in Tasks |-> "none"]
    /\ result = [t \in Tasks |-> "none"]
    /\ invocations = [t \in Tasks |-> 0]
    /\ onlyTimeouts = [t \in Tasks |-> TRUE]
    /\ backoffs = [t \in Tasks |-> 0]

\* A task calls fetch_tick_data_for_day: cmd is built, attempt = 0.
Call(t) ==
    /\ pc[t] = "idle"
    /\ pc' = [pc EXCEPT ![t] = "while"]
    /\ attempt' = [attempt EXCEPT ![t] = 0]
    /\ UNCHANGED <<FETCH_SEMAPHORE, acquired, pending, result, invocations, onlyTimeouts>>
    /\ backoffs' = [backoffs EXCEPT ![t] = 0]
    /\ UNCHANGED nonFetchVars

\* The loop condition `attempt < FETCH_MAX_RETRIES`.
AttemptsRemainOffByOne(a) == a <= FETCH_MAX_RETRIES
AttemptsRemain(a) == a < FETCH_MAX_RETRIES

\* `while attempt < FETCH_MAX_RETRIES`: the next attempt starts, or the loop is
\* left and the function returns [].
WhileTest(t) ==
    /\ pc[t] = "while"
    /\ IF AttemptsRemain(attempt[t])
       THEN /\ attempt' = [attempt EXCEPT ![t] = @ + 1]
            /\ acquired' = [acquired EXCEPT ![t] = FALSE]
            /\ pc' = [pc EXCEPT ![t] = "acquire"]
            /\ UNCHANGED result
       ELSE /\ result' = [result EXCEPT ![t] = "empty"]
            /\ pc' = [pc EXCEPT ![t] = "returned"]
            /\ UNCHANGED <<attempt, acquired>>
    /\ UNCHANGED <<FETCH_SEMAPHORE, pending, invocations, onlyTimeouts>>
    /\ UNCHANGED <<backoffs, nonFetchVars>>

\* BoundedSemaphore.acquire() returns only when a slot is free.
SlotFreeUnchecked(s) == TRUE
SlotFree(s) == s > 0

\* FETCH_SEMAPHORE.acquire(): blocks the task while no slot is free.
Acquire(t) ==
    /\ pc[t] = "acquire"
    /\ SlotFree(FETCH_SEMAPHORE)
    /\ FETCH_SEMAPHORE' = FETCH_SEMAPHORE - 1
    /\ acquired' = [acquired EXCEPT ![t] = TRUE]
    /\ pc' = [pc EXCEPT ![t] = "launch"]
    /\ UNCHANGED <<attempt, pending, result, invocations, onlyTimeouts>>
    /\ UNCHANGED <<backoffs, nonFetchVars>>

\* What the try block does with an exception of the launch: FileNotFoundError
\* is caught and returns []; any other exception is caught by no handler and
\* leaves through `finally`.
LaunchFailedRetried(f) == "retry"
LaunchFailed(f) == IF f = "FileNotFoundError" THEN "return_empty" ELSE "raise"

\* subprocess.run starts the worker: the process exists afterwards, or Popen
\* raised.
Launch(t) ==
    /\ pc[t] = "launch"
    /\ invocations' = [invocations EXCEPT ![t] = @ + 1]
    /\ \/ /\ pc' = [pc EXCEPT ![t] = "run"]
          /\ UNCHANGED <<pending, onlyTimeouts>>
       \/ \E f \in LaunchFailures :
            /\ pending' = [pending EXCEPT ![t] = LaunchFailed(f)]
            /\ onlyTimeouts' = [onlyTimeouts EXCEPT ![t] = FALSE]
            /\ pc' = [pc EXCEPT ![t] = "finally"]
    /\ UNCHANGED <<FETCH_SEMAPHORE, attempt, acquired, result>>
    /\ UNCHANGED <<backoffs, nonFetchVars>>

\* What the try block does with the way the worker process ended.
Classify(o) ==
    CASE o = "TimeoutExpired"     -> [pc |-> "finally", pending |-> "retry"]
      [] o = "nonzero"            -> [pc |-> "finally", pending |-> "retry"]
      [] o = "JSONDecodeError"    -> [pc |-> "finally", pending |-> "retry"]
      [] o = "UnicodeDecodeError" -> [pc |-> "finally", pending |-> "raise"]
      [] OTHER                    -> [pc |-> "throttle",
                                      pending |-> "return_" \o JsonLoads(o)]

\* The worker process ends and subprocess.run returns or raises.
Run(t) ==
    /\ pc[t] = "run"
    /\ \E o \in RunOutcomes :
         /\ pc' = [pc EXCEPT ![t] = Classify(o).pc]
         /\ pending' = [pending EXCEPT ![t] = Classify(o).pending]
         /\ onlyTimeouts' = [onlyTimeouts EXCEPT ![t] = @ /\ o = "TimeoutExpired"]
    /\ UNCHANGED <<FETCH_SEMAPHORE, attempt, acquired, result, invocations>>
    /\ UNCHANGED <<backoffs, nonFetchVars>>

\* time.sleep(FETCH_REQUEST_DELAY) after a successful call, then `return payload`:
\* the payload of an attempt without output is the empty list like any other.
ThrottleReleasedFirst(t) ==
    /\ pc[t] = "throttle"
    /\ IF acquired[t]
       THEN /\ FETCH_SEMAPHORE' = FETCH_SEMAPHORE + 1
            /\ acquired' = [acquired EXCEPT ![t] = FALSE]
            /\ UNCHANGED <<pc, pending>>
       ELSE /\ pc' = [pc EXCEPT ![t] = "finally"]
            /\ pending' = [pending EXCEPT ![t] = IF @ = "return_default" THEN "return_empty" ELSE @]
            /\ UNCHANGED <<FETCH_SEMAPHORE, acquired>>
    /\ UNCHANGED <<attempt, result, invocations, onlyTimeouts>>
    /\ UNCHANGED <<backoffs, nonFetchVars>>
Throttle(t) ==
    /\ pc[t] = "throttle"
    /\ pc' = [pc EXCEPT ![t] = "finally"]
    /\ pending' = [pending EXCEPT ![t] = IF @ = "return_default" THEN "return_empty" ELSE @]
    /\ UNCHANGED <<FETCH_SEMAPHORE, attempt, acquired, result, invocations, onlyTimeouts>>
    /\ UNCHANGED <<backoffs, nonFetchVars>>

\* BoundedSemaphore.release(): ValueError above the initial value, swallowed.
ReleaseDropped(s) == s
Release(s) == IF s < MAX_CONCURRENT_FETCHES THEN s + 1 ELSE s

\* The `finally` block: `if acquired: FETCH_SEMAPHORE.release()`, on every way
\* out of the try block (pend: what the try block decided).
FinallyExceptOnRaise(acq, pend, s) == IF acq /\ pend # "raise" THEN Release(s) ELSE s
FinallyExceptOnRetry(acq, pend, s) == IF acq /\ pend # "retry" THEN Release(s) ELSE s
FinallyBlock(acq, pend, s) == IF acq THEN Release(s) ELSE s

\* The `finally` block, then what the try block had decided.
Finally(t) ==
    /\ pc[t] = "finally"
    /\ FETCH_SEMAPHORE' = FinallyBlock(acquired[t], pending[t], FETCH_SEMAPHORE)
    /\ CASE pending[t] = "retry" ->
              /\ pc' = [pc EXCEPT ![t] = "backoff"]
              /\ UNCHANGED result
         [] pending[t] = "raise" ->
              /\ pc' = [pc EXCEPT ![t] = "raised"]
              /\ result' = [result EXCEPT ![t] = "exception"]
         [] pending[t] = "return_empty" ->
              /\ pc' = [pc EXCEPT ![t] = "returned"]
              /\ result' = [result EXCEPT ![t] = "empty"]
         [] pending[t] = "return_list" ->
              /\ pc' = [pc EXCEPT ![t] = "returned"]
              /\ result' = [result EXCEPT ![t] = "list"]
         [] pending[t] = "return_nonlist" ->
              /\ pc' = [pc EXCEPT ![t] = "returned"]
              /\ result' = [result EXCEPT ![t] = "nonlist"]
    /\ pending' = [pending EXCEPT ![t] = "none"]
    /\ UNCHANGED <<attempt, acquired, invocations, onlyTimeouts>>
    /\ UNCHANGED <<backoffs, nonFetchVars>>

\* Times are in sixteenths of a second. FETCH_BACKOFF_BASE is the default
\* 0.5 s; FETCH_BACKOFF_MAX is set to 0.75 s, so that the second backoff is
\* capped (the default 10 s caps no backoff of the default FETCH_MAX_RETRIES).
FETCH_BACKOFF_BASE == 8
FETCH_BACKOFF_MAX == 12

\* `backoff = min(FETCH_BACKOFF_MAX, FETCH_BACKOFF_BASE * (2 ** (attempt - 1)))`
backoffUncapped(a) == FETCH_BACKOFF_BASE * 2 ^ (a - 1)
backoff(a) == Min(FETCH_BACKOFF_MAX, FETCH_BACKOFF_BASE * 2 ^ (a - 1))

\* random.random(), in quarters: 0, 1/2, and 1 for the values so close to 1
\* that 0.5 + random.random() / 2.0 rounds to 1.0.
RandomValues == {0, 2, 4}

\* `sleep_time = backoff * (0.5 + random.random() / 2.0)`, r in quarters.
jittered(b, r) == (b * (4 + r)) \div 8

\* The values sleep_time can take after failed attempt a.
sleep_time(a) == {jittered(backoff(a), r) : r \in RandomValues}

\* `if attempt < FETCH_MAX_RETRIES`: time.sleep(sleep_time) starts, for one
\* of the values the jitter can give.
BackoffSkipped(t) ==
    /\ pc[t] = "backoff"
    /\ pc' = [pc EXCEPT ![t] = "while"]
    /\ UNCHANGED <<FETCH_SEMAPHORE, attempt, acquired, pending, result,
                   invocations, onlyTimeouts>>
    /\ UNCHANGED <<backoffs, nonFetchVars>>
Backoff(t) ==
    /\ pc[t] = "backoff"
    /\ IF attempt[t] < FETCH_MAX_RETRIES
       THEN /\ sleep_time(attempt[t]) # {}
            /\ pc' = [pc EXCEPT ![t] = "sleep"]
            /\ backoffs' = [backoffs EXCEPT ![t] = @ + 1]
       ELSE /\ pc' = [pc EXCEPT ![t] = "while"]
            /\ UNCHANGED backoffs
    /\ UNCHANGED <<FETCH_SEMAPHORE, attempt, acquired, pending, result,
                   invocations, onlyTimeouts>>
    /\ UNCHANGED nonFetchVars

\* The backoff sleep ends.
Sleep(t) ==
    /\ pc[t] = "sleep"
    /\ pc' = [pc EXCEPT ![t] = "while"]
    /\ UNCHANGED <<FETCH_SEMAPHORE, attempt, acquired, pending, result,
                   invocations, onlyTimeouts, backoffs>>
    /\ UNCHANGED nonFetchVars

FetchStep(t) ==
    \/ Call(t) \/ WhileTest(t) \/ Acquire(t) \/ Launch(t) \/ Run(t)
    \/ Throttle(t) \/ Finally(t) \/ Backoff(t) \/ Sleep(t)

NextFetch == \E t \in Tasks : FetchStep(t)

\* ---------------------------------------------------------- the data model
Instruments == {"EURUSD", "GBPUSD"}
\* Milliseconds per UTC day, scaled down (pd.to_datetime(..., unit='ms')).
MsPerDay == 2
\* Longest list of ticks a call receives.
MaxRows == 2

\* Calendar days the timestamps span, and the timestamps of those days.
Days == {0, 1}
Timestamps == {d * MsPerDay + o : d \in Days, o \in 0..(MsPerDay - 1)}
\* Tick Record: timestamp plus the fields passed through; the pipeline reads
\* only `timestamp`, so one value stands for the other fields.
Bids == {1}
TickRecords == [timestamp : Timestamps, bid : Bids]

SeqsUpTo(S, n) == UNION {[1..k -> S] : k \in 0..n}

\* A pandas DataFrame: its rows in order, and whether it has a `timestamp` column.
Frames ==
    {[has_timestamp |-> TRUE, rows |-> r] : r \in SeqsUpTo(TickRecords, MaxRows)}
    \cup {[has_timestamp |-> FALSE, rows |-> <<[timestamp |-> 0, bid |-> b]>>] : b \in Bids}

\* An HDF5 store file: absent, or a mapping from the keys present to tables.
NoFile == [exists |-> FALSE, tables |-> <<>>]

\* ts.dt.year, ts.dt.month, ts.dt.day of pd.to_datetime(timestamp, unit='ms').
DayOfShifted(ts) == (ts + 1) \div MsPerDay
DayOf(ts) == ts \div MsPerDay

\* f"/{asset}/y{y}/m{m:02}/d{d:02}": one key per instrument and calendar day.
Key(asset, day) == <<asset, day>>

\* The rows of one (year, month, day) group, in the frame's row order.
Group(rows, day) == SelectSeq(rows, LAMBDA r : DayOf(r.timestamp) = day)

\* The group keys of df.groupby(['year', 'month', 'day']), ascending.
RECURSIVE Ascending(_)
Ascending(S) ==
    IF S = {} THEN <<>>
    ELSE LET m == CHOOSE x \in S : \A y \in S : x <= y
         IN <<m>> \o Ascending(S \ {m})
GroupDays(rows) == Ascending({DayOf(rows[i].timestamp) : i \in DOMAIN rows})

\* drop_duplicates(subset=['timestamp']): the first row of each timestamp stays.
KeepDuplicates(rows) == rows
RECURSIVE DropDuplicates(_)
DropDuplicates(rows) ==
    IF rows = <<>> THEN <<>>
    ELSE LET front == DropDuplicates(SubSeq(rows, 1, Len(rows) - 1))
             last == rows[Len(rows)]
         IN IF \E i \in DOMAIN front : front[i].timestamp = last.timestamp
            THEN front ELSE Append(front, last)

\* sort_values('timestamp'): ascending by timestamp.
SortValuesSkipped(rows) == rows
RECURSIVE SortValues(_)
SortValues(rows) ==
    IF rows = <<>> THEN <<>>
    ELSE LET i == CHOOSE j \in DOMAIN rows :
                      /\ \A k \in DOMAIN rows : rows[j].timestamp <= rows[k].timestamp
                      /\ \A k \in 1..(j - 1) : rows[k].timestamp # rows[j].timestamp
         IN <<rows[i]>> \o SortValues(SubSeq(rows, 1, i - 1) \o SubSeq(rows, i + 1, Len(rows)))

\* store.put(key, value, format='table'): the table at key is replaced whole.
Put(tables, key, value) ==
    [k \in (DOMAIN tables) \cup {key} |-> IF k = key THEN value ELSE tables[k]]

\* A put that raised after it removed the old node of the key.
Remove(tables, key) == [k \in (DOMAIN tables) \ {key} |-> tables[k]]

\* ---------------------------------------------------------- store_tick_data
\* What one iteration of the groupby loop puts at its key: existing rows first,
\* then the incoming slice, deduplicated and sorted.
CombinedReplacing(tables, key, payload) == SortValues(DropDuplicates(payload))
Combined(tables, key, payload) ==
    LET combined == IF key \in DOMAIN tables THEN tables[key] \o payload ELSE payload
    IN SortValues(DropDuplicates(combined))

\* The groupby loop over the first n groups.
RECURSIVE PutGroups(_, _, _, _)
PutGroups(tables, asset, rows, n) ==
    IF n = 0 THEN tables
    ELSE LET done == PutGroups(tables, asset, rows, n - 1)
             key == Key(asset, GroupDays(rows)[n])
         IN Put(done, key, Combined(done, key, Group(rows, GroupDays(rows)[n])))

\* How a put can fail: before it touched the file, or after it removed the
\* node it was about to replace.
PutFaults == {"before", "removed"}

\* store_tick_data(df, asset, save_dir): the store file the call leaves.
\* fault = 0: every put succeeds; fault = j > 0: the put of the j-th group
\* raises (an I/O error) in the given mode, and the exception leaves the call
\* with groups 1..j-1 written.
Written(file, asset, df, fault, mode) ==
    IF df.rows = <<>> \/ ~df.has_timestamp
    THEN file
    ELSE LET n == IF fault = 0 THEN Len(GroupDays(df.rows)) ELSE fault - 1
             written == PutGroups(file.tables, asset, df.rows, n)
         IN [exists |-> TRUE,
             tables |-> IF fault > 0 /\ mode = "removed"
                        THEN Remove(written, Key(asset, GroupDays(df.rows)[fault]))
                        ELSE written]

\* The faults a call can meet: none when it returns before the loop, else one
\* of its puts.
Faults(df) == IF df.rows = <<>> \/ ~df.has_timestamp THEN {0} ELSE 0..Len(GroupDays(df.rows))

StoreCall(asset, df, fault, mode) ==
    /\ fault \in Faults(df)
    /\ fault = 0 => mode = "before"
    /\ raw' = [raw EXCEPT ![asset] = Written(@, asset, df, fault, mode)]
    /\ lastCall' = IF df.rows = <<>> \/ ~df.has_timestamp
                   THEN [asset |-> asset, df |-> df, outcome |-> "skipped", again |-> FALSE]
                   ELSE [asset |-> asset, df |-> df,
                         outcome |-> IF fault = 0 THEN "stored" ELSE "raised",
                         again |-> /\ fault = 0
                                   /\ lastCall.outcome = "stored"
                                   /\ lastCall.asset = asset
                                   /\ lastCall.df = df]

\* A call of store_tick_data by itself.
StoreTickData(asset, df, fault, mode) ==
    /\ StoreCall(asset, df, fault, mode)
    /\ UNCHANGED nonStoreVars

StoreIdle ==
    /\ raw = [i \in Instruments |-> NoFile]
    /\ lastCall = [asset |-> "", df |-> [has_timestamp |-> TRUE, rows |-> <<>>],
                   outcome |-> "none", again |-> FALSE]

\* The instrument whose store the calls of SpecStore write.
StoreAssets == {"EURUSD"}

NextStore ==
    \E asset \in StoreAssets, df \in Frames, fault \in 0..Cardinality(Days), mode \in PutFaults :
        StoreTickData(asset, df, fault, mode)

\* ------------------------------------------------- parallel_patch (Gap-Repair)
\* Longest missing-groups task list.
MaxTasks == 2
\* env PARALLEL_MAX_WORKERS (default 6).
PARALLEL_MAX_WORKERS == 2

AllTasks == Instruments \X Days

\* all_tasks as main flattens instrument_dates, read from the Scanner's
\* missing-groups list: instruments in order, the dates of an instrument
\* ascending; a date may be listed twice.
TaskLE(a, b) == \/ (a[1] = "EURUSD" /\ b[1] # "EURUSD")
                \/ (a[1] = b[1] /\ a[2] <= b[2])
TaskLists ==
    {lst \in SeqsUpTo(AllTasks, MaxTasks) :
        \A j \in 1..(Len(lst) - 1) : TaskLE(lst[j], lst[j + 1])}

\* chunkify(lst, n): the loop `for i in range(n)`, from chunk i on, idx ticks consumed.
RECURSIVE ChunkLoop(_, _, _, _)
ChunkLoop(lst, n, i, idx) ==
    IF i >= n THEN <<>>
    ELSE LET q == Len(lst) \div n
             r == Len(lst) % n
             size == q + (IF i < r THEN 1 ELSE 0)
         IN <<SubSeq(lst, idx + 1, idx + size)>> \o ChunkLoop(lst, n, i + 1, idx + size)

chunkifySingle(lst, n) == <<lst>>
chunkify(lst, n) == IF n <= 0 THEN <<lst>> ELSE ChunkLoop(lst, n, 0, 0)

\* main's desired_workers, for --workers given (0: not given).
desired_workers(workers, tasks) ==
    IF workers # 0 THEN Max(1, workers)
    ELSE Min(PARALLEL_MAX_WORKERS, Max(1, Len(tasks)))

\* What fetch_tick_data_for_day(instrument, date) can hand the worker: an
\* exception, [], something pd.DataFrame makes no `timestamp` column of, or
\* ticks of the requested UTC day in any order, repeats included (lists no
\* longer than the day has timestamps).
DayRecords(day) == {r \in TickRecords : DayOf(r.timestamp) = day}
FetchReturns(task) ==
    {[kind |-> k, rows |-> <<>>] : k \in {"exception", "empty", "invalid"}}
    \cup {[kind |-> "rows", rows |-> r] : r \in SeqsUpTo(DayRecords(task[2]), MsPerDay) \ {<<>>}}

\* The worker's groupby loop: each group is put at its key as fetched.
RECURSIVE WorkerPut(_, _, _, _)
WorkerPut(tables, instrument, rows, n) ==
    IF n = 0 THEN tables
    ELSE Put(WorkerPut(tables, instrument, rows, n - 1),
             Key(instrument, GroupDays(rows)[n]), Group(rows, GroupDays(rows)[n]))

\* store.keys(): the keys of a store file, in the file's (ascending) order.
RECURSIVE KeysFrom(_)
KeysFrom(K) ==
    IF K = {} THEN <<>>
    ELSE LET m == CHOOSE x \in K : \A y \in K :
                      \/ x = y
                      \/ (x[1] = "EURUSD" /\ y[1] # "EURUSD")
                      \/ (x[1] = y[1] /\ x[2] < y[2])
         IN <<m>> \o KeysFrom(K \ {m})
Keys(file) == KeysFrom(DOMAIN file.tables)

\* main up to the submits: PARSE and SHARD. The workers start on their chunks.
Shard(workers) ==
    /\ phase = "start"
    /\ LET chunks == chunkify(all_tasks, desired_workers(workers, all_tasks)) IN
         /\ task_chunks' = chunks
         /\ wpos' = [w \in DOMAIN chunks |-> 0]
         /\ fetched' = [w \in DOMAIN chunks |-> <<>>]
         /\ temp' = [w \in DOMAIN chunks |-> NoFile]
    /\ phase' = "fetch"
    /\ UNCHANGED <<all_tasks, merged, final, fetched_dir, split, job, jobKeys, raw0>>
    /\ UNCHANGED <<nonRepairStoreVars, storeVars>>

\* `if not data: continue` and `if df.empty or 'timestamp' not in df.columns:
\* continue`: the worker opens its temp file only for records it can store.
HasDataUnchecked(data) == data.kind # "exception"
HasData(data) == data.kind = "rows"

\* temp_file = f"temp_worker_{worker_id}.h5": the number of the temp file the
\* worker with this id opens.
temp_fileShared(worker_id) == 1
temp_file(worker_id) == worker_id

\* `if chunk: futures.append(executor.submit(worker, i, chunk))`: the chunks
\* a worker is started for.
SubmittedAll(chunks) == DOMAIN chunks
Submitted(chunks) == {w \in DOMAIN chunks : chunks[w] # <<>>}

\* One iteration of worker's loop: fetch the task, then put its groups into
\* the worker's temp_file (nothing is put when there is nothing to store).
WorkerTask(w) ==
    /\ phase = "fetch"
    /\ w \in Submitted(task_chunks)
    /\ wpos[w] < Len(task_chunks[w])
    /\ LET task == task_chunks[w][wpos[w] + 1] IN
         \E data \in FetchReturns(task) :
            /\ fetched' = [fetched EXCEPT ![w] = Append(@, data.rows)]
            /\ temp' = IF HasData(data)
                       THEN [temp EXCEPT ![temp_file(w)] =
                               [exists |-> TRUE,
                                tables |-> WorkerPut(@.tables, task[1], data.rows,
                                                     Len(GroupDays(data.rows)))]]
                       ELSE temp
    /\ wpos' = [wpos EXCEPT ![w] = @ + 1]
    /\ UNCHANGED <<phase, all_tasks, task_chunks, merged, final, fetched_dir,
                   split, job, jobKeys, raw0>>
    /\ UNCHANGED <<nonRepairStoreVars, storeVars>>

\* The `with ThreadPoolExecutor` block of the workers is left: every future
\* has given its result, so every worker went through its whole chunk.
FuturesSubmitted(chunks, pos) == TRUE
FuturesDone(chunks, pos) == \A w \in DOMAIN chunks : pos[w] = Len(chunks[w])

\* Every future has its result: merge_hdf5_files opens final_file in mode 'a'.
OpenFinal ==
    /\ phase = "fetch"
    /\ FuturesDone(task_chunks, wpos)
    /\ phase' = "merge_temp"
    /\ merged' = 0
    /\ final' = [final EXCEPT !.exists = TRUE]
    /\ UNCHANGED <<all_tasks, task_chunks, wpos, fetched, temp, fetched_dir,
                   split, job, jobKeys, raw0>>
    /\ UNCHANGED <<nonRepairStoreVars, storeVars>>

\* The puts of merge_hdf5_files for the first n keys of a temp file.
RECURSIVE CopyKeys(_, _, _, _)
CopyKeys(tables, from, keys, n) ==
    IF n = 0 THEN tables
    ELSE Put(CopyKeys(tables, from, keys, n - 1), keys[n], from[keys[n]])

\* What is left of a temp file after merge_hdf5_files went through it: the
\* `finally` removes it whenever it existed.
AfterMerge(file) == IF file.exists THEN NoFile ELSE file

\* One iteration of merge_hdf5_files' loop, over temp file number merged + 1.
\* fault = 0: every key is copied; fault = j > 0: reading the j-th table raises
\* ("Error reading"), keys 1..j-1 are copied.
MergeTemp(fault) ==
    /\ phase = "merge_temp"
    /\ merged < Len(temp)
    /\ LET t == temp[merged + 1]
           keys == Keys(t)
       IN /\ fault \in 0..Len(keys)
          /\ final' = IF t.exists
                      THEN [final EXCEPT !.tables =
                              CopyKeys(@, t.tables, keys,
                                       IF fault = 0 THEN Len(keys) ELSE fault - 1)]
                      ELSE final
          /\ temp' = [temp EXCEPT ![merged + 1] = AfterMerge(t)]
    /\ merged' = merged + 1
    /\ UNCHANGED <<phase, all_tasks, task_chunks, wpos, fetched, fetched_dir,
                   split, job, jobKeys, raw0>>
    /\ UNCHANGED <<nonRepairStoreVars, storeVars>>

\* decompose_by_instrument(final_file): one file per instrument that has keys.
InstrumentKeys(file, i) == {k \in DOMAIN file.tables : k[1] = i}
Decomposed(file, i) ==
    IF InstrumentKeys(file, i) = {} THEN NoFile
    ELSE [exists |-> TRUE, tables |-> [k \in InstrumentKeys(file, i) |-> file.tables[k]]]

\* main from decompose_by_instrument to the submits of the merge jobs: one job
\* per *_tick_data.h5 file listed in fetched_dir.
Decompose ==
    /\ phase = "merge_temp"
    /\ merged = Len(temp)
    /\ fetched_dir' = TRUE
    /\ split' = [i \in Instruments |-> Decomposed(final, i)]
    /\ job' = [i \in Instruments |-> IF Decomposed(final, i).exists THEN "queued" ELSE "none"]
    /\ phase' = "merge_raw"
    /\ UNCHANGED <<all_tasks, task_chunks, wpos, fetched, temp, merged, final,
                   jobKeys, raw0>>
    /\ UNCHANGED <<nonRepairStoreVars, storeVars>>

\* raw_path = os.path.join(raw_dir, f"{instrument}_tick_data.h5"): the
\* canonical file the merge job of an instrument opens.
raw_pathShared(instrument) == "EURUSD"
raw_path(instrument) == instrument

\* merge_instrument_file up to the `with`: without the fetched file or without
\* the raw file it returns, else both stores are opened.
JobStartCreating(i) ==
    /\ phase = "merge_raw"
    /\ job[i] = "queued"
    /\ IF ~split[i].exists
       THEN /\ job' = [job EXCEPT ![i] = "done"]
            /\ UNCHANGED <<jobKeys, raw>>
       ELSE /\ job' = [job EXCEPT ![i] = "open"]
            /\ jobKeys' = [jobKeys EXCEPT ![i] = Keys(split[i])]
            /\ raw' = [raw EXCEPT ![raw_path(i)].exists = TRUE]
    /\ UNCHANGED <<phase, all_tasks, task_chunks, wpos, fetched, temp, merged,
                   final, fetched_dir, split, raw0>>
    /\ UNCHANGED <<nonRepairStoreVars, lastCall>>
JobStart(i) ==
    /\ phase = "merge_raw"
    /\ job[i] = "queued"
    /\ IF ~split[i].exists \/ ~raw[raw_path(i)].exists
       THEN /\ job' = [job EXCEPT ![i] = "done"]
            /\ UNCHANGED jobKeys
       ELSE /\ job' = [job EXCEPT ![i] = "open"]
            /\ jobKeys' = [jobKeys EXCEPT ![i] = Keys(split[i])]
    /\ UNCHANGED <<phase, all_tasks, task_chunks, wpos, fetched, temp, merged,
                   final, fetched_dir, split, raw0>>
    /\ UNCHANGED <<nonRepairStoreVars, storeVars>>

\* One iteration of `for key in fetched_store.keys()`: a key raw_store has is
\* skipped, any other is put.
MergeKeyOverwriting(raw_tables, fetched_tables, key) ==
    Put(raw_tables, key, fetched_tables[key])
MergeKey(raw_tables, fetched_tables, key) ==
    IF key \in DOMAIN raw_tables THEN raw_tables
    ELSE Put(raw_tables, key, fetched_tables[key])

JobCopy(i) ==
    /\ phase = "merge_raw"
    /\ job[i] = "open"
    /\ jobKeys[i] # <<>>
    /\ raw' = [raw EXCEPT ![raw_path(i)].tables =
                           MergeKey(@, split[i].tables, Head(jobKeys[i]))]
    /\ jobKeys' = [jobKeys EXCEPT ![i] = Tail(@)]
    /\ UNCHANGED <<phase, all_tasks, task_chunks, wpos, fetched, temp, merged,
                   final, fetched_dir, split, job, raw0>>
    /\ UNCHANGED <<nonRepairStoreVars, lastCall>>

\* The loop is over: both stores are closed and the job ends.
JobClose(i) ==
    /\ phase = "merge_raw"
    /\ job[i] = "open"
    /\ jobKeys[i] = <<>>
    /\ job' = [job EXCEPT ![i] = "done"]
    /\ UNCHANGED <<phase, all_tasks, task_chunks, wpos, fetched, temp, merged,
                   final, fetched_dir, split, jobKeys, raw0>>
    /\ UNCHANGED <<nonRepairStoreVars, storeVars>>

\* The merge pool has shut down: CLEANUP, unless --no-cleanup was given.
CleanupFinalOnly(no_cleanup) ==
    /\ phase = "merge_raw"
    /\ \A i \in Instruments : job[i] \in {"none", "done"}
    /\ final' = IF no_cleanup THEN final ELSE NoFile
    /\ phase' = "done"
    /\ UNCHANGED <<all_tasks, task_chunks, wpos, fetched, temp, merged, fetched_dir,
                   split, job, jobKeys, raw0>>
    /\ UNCHANGED <<nonRepairStoreVars, storeVars>>
Cleanup(no_cleanup) ==
    /\ phase = "merge_raw"
    /\ \A i \in Instruments : job[i] \in {"none", "done"}
    /\ IF no_cleanup
       THEN UNCHANGED <<final, fetched_dir, split>>
       ELSE /\ final' = NoFile
            /\ fetched_dir' = FALSE
            /\ split' = [i \in Instruments |-> NoFile]
    /\ phase' = "done"
    /\ UNCHANGED <<all_tasks, task_chunks, wpos, fetched, temp, merged, job,
                   jobKeys, raw0>>
    /\ UNCHANGED <<nonRepairStoreVars, storeVars>>

NextRepair ==
    \/ \E workers \in 0..PARALLEL_MAX_WORKERS : Shard(workers)
    \/ \E w \in 1..Max(PARALLEL_MAX_WORKERS, 1) : WorkerTask(w)
    \/ OpenFinal
    \/ \E fault \in 0..Cardinality(AllTasks) : MergeTemp(fault)
    \/ Decompose
    \/ \E i \in Instruments : JobStart(i) \/ JobCopy(i) \/ JobClose(i)
    \/ \E no_cleanup \in BOOLEAN : Cleanup(no_cleanup)

\* No Gap-Repair run: nothing of parallel_patch exists.
RepairIdle ==
    /\ phase = "idle"
    /\ all_tasks = <<>>
    /\ task_chunks = <<>>
    /\ wpos = <<>>
    /\ fetched = <<>>
    /\ temp = <<>>
    /\ merged = 0
    /\ final = NoFile
    /\ fetched_dir = FALSE
    /\ split = [i \in Instruments |-> NoFile]
    /\ job = [i \in Instruments |-> "none"]
    /\ jobKeys = [i \in Instruments |-> <<>>]
    /\ raw0 = raw

\* The canonical stores a run can find, as earlier store_tick_data calls left
\* them: each instrument's file holds the first tick of day 0, or the file of
\* EURUSD does not exist.
Stored(i) == [exists |-> TRUE, tables |-> (Key(i, 0) :> <<[timestamp |-> 0, bid |-> 1]>>)]
CanonicalStores ==
    {[i \in Instruments |-> Stored(i)],
     [i \in Instruments |-> IF i = "EURUSD" THEN NoFile ELSE Stored(i)]}

\* ------------------------------------------------------------ batch_update
\* Rows of the manifest CSV a run reads.
MaxSymbols == 2
\* Threads of the pool (env BATCH_MAX_WORKERS, default 8).
BATCH_MAX_WORKERS == 2
\* Dates are day numbers: the last-known dates of the rows and --end-date.
LastDates == {-1, 0}
EndDates == {1, 2}
\* main's symbols_dates: one entry per CSV row, in the file's order; nothing
\* removes a row whose symbol an earlier row has.
Manifests == SeqsUpTo(Instruments \X LastDates, MaxSymbols)

\* max_workers as main computes it; workers = 0 stands for no --workers.
batch_workers(workers, rows) ==
    IF workers # 0 THEN Max(1, workers)
    ELSE Min(BATCH_MAX_WORKERS, Max(1, Len(rows)))

\* The ticks of a day, as the worker script lists them.
DayTicks(day) ==
    [o \in 1..MsPerDay |-> [timestamp |-> day * MsPerDay + o - 1, bid |-> CHOOSE b \in Bids : TRUE]]

\* What a fetch_tick_data_for_day call can give run_fetch:
\*   exception  the call raised
\*   empty      []
\*   falsy      JSON that is no array and is falsy (null, 0, {})
\*   scalars    JSON that pd.DataFrame refuses (an object of scalars, a string)
\*   columns    JSON that pd.DataFrame turns into a frame with no `timestamp`
\*   rows       the ticks of the day
ReturnKinds == {"exception", "empty", "falsy", "scalars", "columns", "rows"}

\* main up to the end of the submit loop: one run_fetch task per row.
BatchSubmit(workers) ==
    /\ bphase = "start"
    /\ max_workers' = batch_workers(workers, symbols_dates)
    /\ future' = [t \in DOMAIN symbols_dates |-> "pending"]
    /\ start_date' = [t \in DOMAIN symbols_dates |-> symbols_dates[t][2]]
    /\ fetch_log' = [t \in DOMAIN symbols_dates |-> <<>>]
    /\ store_failed' = [t \in DOMAIN symbols_dates |-> FALSE]
    /\ bphase' = "running"
    /\ UNCHANGED <<symbols_dates, end_date>>
    /\ UNCHANGED <<nonBatchStoreVars, storeVars>>

\* A pool thread takes the oldest pending task: run_fetch up to the loop.
RunFetch(t) ==
    /\ bphase = "running"
    /\ t \in DOMAIN future
    /\ future[t] = "pending"
    /\ \A u \in 1..(t - 1) : future[u] # "pending"
    /\ Cardinality({u \in DOMAIN future : future[u] = "running"}) < max_workers
    /\ start_date' = [start_date EXCEPT ![t] = symbols_dates[t][2] + 1]
    /\ future' = [future EXCEPT ![t] =
                     IF start_date'[t] >= end_date THEN "finished" ELSE "running"]
    /\ UNCHANGED <<bphase, symbols_dates, end_date, max_workers, fetch_log, store_failed>>
    /\ UNCHANGED <<nonBatchStoreVars, storeVars>>

\* The frame run_fetch hands to store_tick_data: pd.DataFrame(tick_data) when
\* tick_data is truthy, else none (no rows: nothing is stored).
Frame(kind, day) ==
    CASE kind = "rows" -> [has_timestamp |-> TRUE, rows |-> DayTicks(day)]
      [] kind = "columns" -> [has_timestamp |-> FALSE, rows |-> <<DayTicks(day)[1]>>]
      [] OTHER -> [has_timestamp |-> TRUE, rows |-> <<>>]

\* `start_date += timedelta(days=1)` and the loop test that follows it.
NextDay(t) ==
    /\ start_date' = [start_date EXCEPT ![t] = @ + 1]
    /\ future' = [future EXCEPT ![t] =
                     IF start_date'[t] < end_date THEN "running" ELSE "finished"]

\* How an iteration of run_fetch's loop goes:
\*   raised   the Fetch Client or pd.DataFrame raised: the outer `except`
\*   nothing  tick_data is falsy, or store_tick_data returned without writing
\*   error    store_tick_data raised: the inner `except`
\*   saved    store_tick_data returned after writing
DayOutcome(kind, fault) ==
    CASE kind \in {"exception", "scalars"} -> "raised"
      [] kind = "rows" /\ fault # 0 -> "error"
      [] kind = "rows" /\ fault = 0 -> "saved"
      [] OTHER -> "nothing"

\* One iteration of run_fetch's loop. An exception of the Fetch Client or of
\* pd.DataFrame reaches the outer `except` and ends the task; an exception of
\* store_tick_data is logged and the loop goes on.
FetchDay(t, kind, fault, mode) ==
    /\ bphase = "running"
    /\ t \in DOMAIN future
    /\ future[t] = "running"
    /\ fetch_log' = [fetch_log EXCEPT ![t] = Append(@, start_date[t])]
    /\ store_failed' = [store_failed EXCEPT ![t] = @ \/ DayOutcome(kind, fault) = "error"]
    /\ fault \in Faults(Frame(kind, start_date[t]))
    /\ fault = 0 => mode = "before"
    /\ IF kind \in {"exception", "scalars"}
       THEN /\ future' = [future EXCEPT ![t] = "caught"]
            /\ UNCHANGED <<start_date, raw>>
       ELSE /\ raw' = [raw EXCEPT ![symbols_dates[t][1]] =
                         Written(@, symbols_dates[t][1], Frame(kind, start_date[t]),
                                 fault, mode)]
            /\ NextDay(t)
    /\ UNCHANGED <<bphase, symbols_dates, end_date, max_workers, lastCall>>
    /\ UNCHANGED nonBatchStoreVars

\* The `with ThreadPoolExecutor` block is left once every task has ended.
SomeFutureDone(f) == \E t \in DOMAIN f : f[t] \in {"finished", "caught"}
AllFuturesDone(f) == \A t \in DOMAIN f : f[t] \in {"finished", "caught"}

BatchReturn ==
    /\ bphase = "running"
    /\ AllFuturesDone(future)
    /\ bphase' = "returned"
    /\ UNCHANGED <<symbols_dates, end_date, max_workers, future, start_date, fetch_log,
                   store_failed>>
    /\ UNCHANGED <<nonBatchStoreVars, storeVars>>

NextBatch ==
    \/ \E workers \in 0..BATCH_MAX_WORKERS : BatchSubmit(workers)
    \/ \E t \in 1..MaxSymbols : RunFetch(t)
    \/ \E t \in 1..MaxSymbols, kind \in ReturnKinds, fault \in 0..1, mode \in PutFaults :
          FetchDay(t, kind, fault, mode)
    \/ BatchReturn

\* No batch_update run.
BatchIdle ==
    /\ bphase = "idle"
    /\ symbols_dates = <<>>
    /\ end_date = 0
    /\ max_workers = 0
    /\ future = <<>>
    /\ start_date = <<>>
    /\ fetch_log = <<>>
    /\ store_failed = <<>>

\* ------------------------------------------------------------------ scanner
\* The calendar the scanner walks, scaled: the months of one year, a date
\* being the number of its day counted from the first day of the first month.
ScanMonths == {0, 1}
\* calendar.monthrange(year, month)[1]: the number of days of the month.
monthrange(month) == IF month = 0 THEN 3 ELSE 2
\* datetime(year, month, day).
RECURSIVE FirstDate(_)
FirstDate(month) == IF month = 0 THEN 0 ELSE FirstDate(month - 1) + monthrange(month - 1)
Date(month, day) == FirstDate(month) + day - 1
MonthDates(month) == {Date(month, day) : day \in 1..monthrange(month)}
ScanDates == UNION {MonthDates(month) : month \in ScanMonths}
\* date_obj.weekday(): Monday is 0 and Saturday 5; the first date is a Friday.
Weekday0 == 4
weekday(date) == (date + Weekday0) % 7

\* valid_dates(year, month): the dates of the month but its Saturdays, ascending.
AnyWeekday(date) == TRUE
NotSaturday(date) == weekday(date) # 5
valid_dates(month) ==
    SelectSeq([day \in 1..monthrange(month) |-> Date(month, day)], NotSaturday)

\* What h5py finds at the day group of a date:
\*   absent     no group d<dd> in the month group (KeyError)
\*   good       a group whose "table" dataset reads
\*   no_table   a group without "table"
\*   bad_table  a group whose "table" dataset raises when read
Statuses == {"absent", "good", "no_table", "bad_table"}
\* A store file of the scanned folder: whether h5py.File can open it, and its
\* day groups. A year or month group exists when one of its day groups does.
\* Truncated is a file cut short by an interrupted write: h5py.File raises
\* OSError, and none of the partitions written to it can be read.
NoH5 == [exists |-> FALSE, opens |-> FALSE, days |-> [d \in ScanDates |-> "absent"]]
Truncated == [exists |-> TRUE, opens |-> FALSE, days |-> [d \in ScanDates |-> "bad_table"]]
H5Files == [exists : {TRUE}, opens : {TRUE}, days : [ScanDates -> Statuses]] \cup {Truncated}

\* is_dataset_good(dset) and `"table" in day_group`.
is_dataset_good(status) == status = "good"
HasTable(status) == status \in {"good", "bad_table"}

\* start_date and end_date: <<>> is None.
ScanRanges == [start : {<<>>, <<2>>}, end : {<<>>, <<3>>}]
InRange(date, range) ==
    /\ range.start = <<>> \/ ~(date < range.start[1])
    /\ range.end = <<>> \/ ~(date > range.end[1])

\* The `except KeyError` branch and the assignment to last_good_date.
OnKeyError(acc, row) == [acc EXCEPT !.missing_groups = Append(@, row)]
FirstGood(last_good_date, date) == IF last_good_date = <<>> THEN <<date>> ELSE last_good_date
LastGood(last_good_date, date) == <<date>>

\* The try block of scan_hdf5 for one date; `good` lists the dates found good.
ScanDay(acc, instrument, status, date) ==
    IF status = "absent" THEN OnKeyError(acc, <<instrument, date>>)
    ELSE IF HasTable(status) /\ is_dataset_good(status)
    THEN [acc EXCEPT !.last_good_date = LastGood(@, date), !.good = Append(@, date)]
    ELSE [acc EXCEPT !.missing_tables = Append(@, <<instrument, date>>)]

\* `for date_obj in valid_dates(year, month)` over the first n dates.
RECURSIVE ScanMonth(_, _, _, _, _, _)
ScanMonth(acc, instrument, days, range, dates, n) ==
    IF n = 0 THEN acc
    ELSE LET before == ScanMonth(acc, instrument, days, range, dates, n - 1)
         IN IF InRange(dates[n], range)
            THEN ScanDay(before, instrument, days[dates[n]], dates[n])
            ELSE before

\* sorted(year_group.keys(), key=lambda x: int(x[1:])): the month groups the
\* file has, ascending.
MonthKeys(days) ==
    Ascending({month \in ScanMonths : \E d \in MonthDates(month) : days[d] # "absent"})

\* `for month_key in sorted(...)` over the first n month groups.
RECURSIVE ScanInstrument(_, _, _, _, _, _)
ScanInstrument(acc, instrument, days, range, months, n) ==
    IF n = 0 THEN acc
    ELSE ScanMonth(ScanInstrument(acc, instrument, days, range, months, n - 1),
                   instrument, days, range,
                   valid_dates(months[n]), Len(valid_dates(months[n])))

NotScanned ==
    [state |-> "none", last_updates |-> <<>>, missing_groups |-> <<>>,
     missing_tables |-> <<>>, good |-> <<>>]

\* scan_hdf5(file_path, start_date, end_date) on the file of one instrument.
scan_hdf5(instrument, file, range) ==
    IF ~file.opens THEN [NotScanned EXCEPT !.state = "raised"]
    ELSE LET months == MonthKeys(file.days)
             acc == ScanInstrument([last_good_date |-> <<>>, good |-> <<>>,
                                    missing_groups |-> <<>>, missing_tables |-> <<>>],
                                   instrument, file.days, range, months, Len(months))
         IN [state |-> "returned",
             last_updates |-> IF acc.last_good_date # <<>>
                              THEN <<<<instrument, acc.last_good_date[1]>>>> ELSE <<>>,
             missing_groups |-> acc.missing_groups,
             missing_tables |-> acc.missing_tables,
             good |-> acc.good]

\* process_file and the body of main's as_completed loop for one file: what
\* scan_hdf5 returned is appended to the aggregated lists, and nothing is when
\* it raised.
ProcessFile(i) ==
    /\ sphase = "start"
    /\ h5[i].exists
    /\ scan_result[i].state = "none"
    /\ LET r == scan_hdf5(i, h5[i], scan_range) IN
         /\ scan_result' = [scan_result EXCEPT ![i] = r]
         /\ all_last_updates' = all_last_updates \o r.last_updates
         /\ all_missing_groups' = all_missing_groups \o r.missing_groups
         /\ all_missing_tables' = all_missing_tables \o r.missing_tables
    /\ UNCHANGED <<sphase, h5, scan_range>>
    /\ UNCHANGED <<fetchVars, storeVars, repairVars, batchVars, manualVars>>

\* The pool has shut down: main writes the CSV files from the aggregated lists.
WriteCsv ==
    /\ sphase = "start"
    /\ \A i \in Instruments : h5[i].exists => scan_result[i].state # "none"
    /\ sphase' = "written"
    /\ UNCHANGED <<h5, scan_range, scan_result, all_last_updates, all_missing_groups,
                   all_missing_tables>>
    /\ UNCHANGED <<fetchVars, storeVars, repairVars, batchVars, manualVars>>

NextScan ==
    \/ \E i \in Instruments : ProcessFile(i)
    \/ WriteCsv

\* No scanner run.
ScanIdle ==
    /\ sphase = "idle"
    /\ h5 = [i \in Instruments |-> NoH5]
    /\ scan_range = [start |-> <<>>, end |-> <<>>]
    /\ scan_result = [i \in Instruments |-> NotScanned]
    /\ all_last_updates = <<>>
    /\ all_missing_groups = <<>>
    /\ all_missing_tables = <<>>

\* The folders a run scans: any file of EURUSD, beside no file of GBPUSD or
\* one whose first day has a table that does not read.
ScanFolders ==
    {[i \in Instruments |-> IF i = "EURUSD" THEN f ELSE g] :
        f \in H5Files,
        g \in {NoH5, [exists |-> TRUE, opens |-> TRUE,
                      days |-> [d \in ScanDates |-> IF d = 0 THEN "bad_table" ELSE "good"]]}}

\* ------------------------------------------------ fetch_and_store_tick_data
\* The arguments of a call: dates are day numbers; store_func is the imported
\* store_tick_data, or None when neither import of it succeeded.
ManualStarts == {0, 1}
ManualEnds == {1, 2}
StoreFuncs == {"store_tick_data", "None"}
ManualArgs ==
    [start_date : ManualStarts, end_date : ManualEnds, asset : Instruments,
     store_func : StoreFuncs]

\* The body of `if data:` reaches store_func: the frame has a `timestamp`
\* column, is not empty, and there is a store_func.
StoreCalled(kind, store_func) == kind = "rows" /\ store_func # "None"

\* One iteration of the loop of fetch_and_store_tick_data. An exception of
\* the Fetch Client or of pd.DataFrame is caught nowhere and ends the call;
\* an exception of store_func is logged, the day is not counted and the loop
\* goes on.
ManualDay(kind, fault, mode) ==
    /\ mphase = "loop"
    /\ current < manual_args.end_date
    /\ fault \in Faults(Frame(kind, current))
    /\ fault = 0 => mode = "before"
    /\ ~StoreCalled(kind, manual_args.store_func) => fault = 0
    /\ manual_log' = Append(manual_log,
                            [day |-> current, kind |-> kind,
                             stored |-> StoreCalled(kind, manual_args.store_func) /\ fault = 0])
    /\ IF kind \in {"exception", "scalars"}
       THEN /\ mphase' = "raised"
            /\ UNCHANGED <<current, saved_days, raw>>
       ELSE /\ raw' = IF StoreCalled(kind, manual_args.store_func)
                      THEN [raw EXCEPT ![manual_args.asset] =
                               Written(@, manual_args.asset, Frame(kind, current), fault, mode)]
                      ELSE raw
            /\ saved_days' = IF StoreCalled(kind, manual_args.store_func) /\ fault = 0
                             THEN saved_days + 1 ELSE saved_days
            /\ current' = current + 1
            /\ mphase' = "loop"
    /\ UNCHANGED <<manual_args, lastCall>>
    /\ UNCHANGED nonManualStoreVars

\* `while current < end_date` fails: `return saved_days`.
ManualReturn ==
    /\ mphase = "loop"
    /\ current >= manual_args.end_date
    /\ mphase' = "returned"
    /\ UNCHANGED <<manual_args, current, saved_days, manual_log>>
    /\ UNCHANGED <<nonManualStoreVars, storeVars>>

NextManual ==
    \/ \E kind \in ReturnKinds, fault \in 0..1, mode \in PutFaults : ManualDay(kind, fault, mode)
    \/ ManualReturn

\* No fetch_and_store_tick_data call.
ManualIdle ==
    /\ mphase = "idle"
    /\ manual_args = [start_date |-> 0, end_date |-> 0, asset |-> "", store_func |-> "None"]
    /\ current = 0
    /\ saved_days = 0
    /\ manual_log = <<>>

\* --------------------------------------------------------- specifications
InitFetch == FetchIdle /\ StoreIdle /\ RepairIdle /\ BatchIdle /\ ScanIdle /\ ManualIdle
SpecFetch == InitFetch /\ [][NextFetch]_vars

\* Scheduling: every thread of the pool keeps running (the OS scheduler is fair
\* to runnable threads, sleeps end, subprocess.run ends by PROCESS_TIMEOUT).
\* Every step of a call moves its pc, so the steps are told by pc alone.
SpecFetchFair == SpecFetch /\ \A t \in Tasks : WF_pc(FetchStep(t))

\* Any sequence of store_tick_data calls on a store that starts absent.
InitStore == FetchIdle /\ StoreIdle /\ RepairIdle /\ BatchIdle /\ ScanIdle /\ ManualIdle
SpecStore == InitStore /\ [][NextStore]_vars

\* One run of parallel_patch.main on a fresh working directory, for every
\* missing-groups input, command line and state of the canonical stores.
InitRepair ==
    /\ FetchIdle
    /\ lastCall = [asset |-> "", df |-> [has_timestamp |-> TRUE, rows |-> <<>>],
                   outcome |-> "none", again |-> FALSE]
    /\ raw \in CanonicalStores
    /\ raw0 = raw
    /\ phase = "start"
    /\ all_tasks \in TaskLists
    /\ task_chunks = <<>>
    /\ wpos = <<>>
    /\ fetched = <<>>
    /\ temp = <<>>
    /\ merged = 0
    /\ final = NoFile
    /\ fetched_dir = FALSE
    /\ split = [i \in Instruments |-> NoFile]
    /\ job = [i \in Instruments |-> "none"]
    /\ jobKeys = [i \in Instruments |-> <<>>]
    /\ BatchIdle
    /\ ScanIdle
    /\ ManualIdle
SpecRepair == InitRepair /\ [][NextRepair]_vars

\* One run of batch_update.main on fresh stores: the CSV has been read and
\* --end-date parsed.
InitBatch ==
    /\ FetchIdle /\ StoreIdle /\ RepairIdle /\ ScanIdle /\ ManualIdle
    /\ bphase = "start"
    /\ symbols_dates \in Manifests
    /\ end_date \in EndDates
    /\ max_workers = 0
    /\ future = <<>>
    /\ start_date = <<>>
    /\ fetch_log = <<>>
    /\ store_failed = <<>>
SpecBatch == InitBatch /\ [][NextBatch]_vars

\* SpecBatchFair: the main thread and every pool thread keep running. Whether
\* a task can go through an iteration does not depend on what the Fetch Client
\* gives it, so the fairness of a task is stated on the iteration with an
\* empty result: a task that could go on forever ends.
MainStep == BatchReturn \/ \E workers \in 0..BATCH_MAX_WORKERS : BatchSubmit(workers)
TaskStep(t) == RunFetch(t) \/ FetchDay(t, "empty", 0, "before")
SpecBatchFair ==
    SpecBatch /\ WF_vars(MainStep) /\ \A t \in 1..MaxSymbols : WF_vars(TaskStep(t))

\* One run of scanner.main: the folder has been listed and the dates parsed.
InitScan ==
    /\ FetchIdle /\ StoreIdle /\ RepairIdle /\ BatchIdle /\ ManualIdle
    /\ sphase = "start"
    /\ h5 \in ScanFolders
    /\ scan_range \in ScanRanges
    /\ scan_result = [i \in Instruments |-> NotScanned]
    /\ all_last_updates = <<>>
    /\ all_missing_groups = <<>>
    /\ all_missing_tables = <<>>
SpecScan == InitScan /\ [][NextScan]_vars

\* One fetch_and_store_tick_data call, as manual_update.main makes it, on
\* stores earlier calls left: up to `saved_days = 0`.
InitManual ==
    /\ lastCall = [asset |-> "", df |-> [has_timestamp |-> TRUE, rows |-> <<>>],
                   outcome |-> "none", again |-> FALSE]
    /\ raw \in CanonicalStores
    /\ FetchIdle /\ RepairIdle /\ BatchIdle /\ ScanIdle
    /\ mphase = "loop"
    /\ manual_args \in ManualArgs
    /\ current = manual_args.start_date
    /\ saved_days = 0
    /\ manual_log = <<>>
SpecManual == InitManual /\ [][NextManual]_vars

\* ------------------------------------------------------------ fetch claims
\* Worker invocations in flight: subprocess.run has started a process that
\* has not ended yet.
InFlight == {t \in Tasks : pc[t] = "run"}
\* Tasks between a successful acquire and the release of `finally`.
Holding == {t \in Tasks : acquired[t] /\ pc[t] \in {"launch", "run", "throttle", "finally"}}
Ended(t) == pc[t] \in {"returned", "raised"}

\* C1: in every reachable state the number of worker invocations in flight is
\* at most the semaphore capacity, whatever the number of tasks.
C1_ConcurrencyBound == Cardinality(InFlight) <= MAX_CONCURRENT_FETCHES

\* C1 witness: the cap is reached while a further task waits for a slot.
C1_Witness ==
    /\ Cardinality(InFlight) = MAX_CONCURRENT_FETCHES
    /\ \E t \in Tasks : pc[t] = "acquire"

\* C2: the slots taken from the semaphore are exactly one per task that is
\* between its acquire and its `finally`: a task that returned, raised, backs
\* off or starts a new attempt holds none, no task holds two, and with no call
\* active every slot is free.
C2_SlotsReleased ==
    /\ FETCH_SEMAPHORE >= 0
    /\ MAX_CONCURRENT_FETCHES - FETCH_SEMAPHORE = Cardinality(Holding)
    /\ (\A t \in Tasks : pc[t] = "idle" \/ Ended(t))
           => FETCH_SEMAPHORE = MAX_CONCURRENT_FETCHES

\* C2 witness: one call left by an exception, another returned ticks after the
\* throttle, and every slot is free again.
C2_Witness ==
    /\ \E t \in Tasks : pc[t] = "raised"
    /\ \E t \in Tasks : pc[t] = "returned" /\ result[t] = "list" /\ attempt[t] > 1
    /\ FETCH_SEMAPHORE = MAX_CONCURRENT_FETCHES

\* C3: a call whose every worker invocation timed out never makes more than
\* FETCH_MAX_RETRIES invocations and never raises; once it has ended it made
\* exactly FETCH_MAX_RETRIES invocations and returned the empty list; and under
\* fair scheduling the calls of all tasks do end (none hangs).
C3_Safety ==
    \A t \in Tasks : onlyTimeouts[t] =>
        /\ invocations[t] <= FETCH_MAX_RETRIES
        /\ pc[t] # "raised"
        /\ pc[t] = "returned" => invocations[t] = FETCH_MAX_RETRIES /\ result[t] = "empty"

C3_RetryTermination ==
    /\ []C3_Safety
    /\ <>(\A t \in Tasks : Ended(t))

\* C3 witness: a call that met only timeouts has returned.
C3_Witness ==
    \E t \in Tasks : pc[t] = "returned" /\ onlyTimeouts[t] /\ invocations[t] > 0

\* C4 (as claimed): no call ever leaves by an exception, and what a call
\* returns is a list.
C4_NeverRaises ==
    \A t \in Tasks : pc[t] # "raised" /\ result[t] \in {"none", "empty", "list"}

\* ------------------------------------------------------------ store claims
StrictlyAscending(rows) ==
    \A j \in 1..(Len(rows) - 1) : rows[j].timestamp < rows[j + 1].timestamp

\* C5: after any sequence of store_tick_data calls, every partition of the
\* store is sorted by timestamp and no two of its records share a timestamp.
C5_SortedUnique ==
    \A i \in Instruments : \A k \in DOMAIN raw[i].tables :
        StrictlyAscending(raw[i].tables[k])

\* C5 witness: a call stored two ticks of one day given out of order or twice,
\* into a partition that then holds both timestamps of the day.
C5_Witness ==
    /\ lastCall.outcome = "stored"
    /\ Len(lastCall.df.rows) = 2
    /\ lastCall.df.rows[1].timestamp >= lastCall.df.rows[2].timestamp
    /\ LET k == Key(lastCall.asset, DayOf(lastCall.df.rows[1].timestamp))
       IN Len(raw[lastCall.asset].tables[k]) = 2

\* C6: a store_tick_data call that repeats the completed call before it (same
\* instrument, same records) leaves every partition of every store as it was.
C6_IdempotentWrite == [][lastCall'.again => raw' = raw]_vars

\* C6 witness: records of two days were written twice in a row.
C6_Witness ==
    /\ lastCall.again
    /\ Len(GroupDays(lastCall.df.rows)) = 2

\* ------------------------------------------------------- Gap-Repair claims
\* The key and the stored rows of the j-th task of worker w.
TaskKey(w, j) == Key(task_chunks[w][j][1], task_chunks[w][j][2])
Added(i) == (DOMAIN raw[i].tables) \ (DOMAIN raw0[i].tables)

\* C7: a partition the canonical store held when the run began is held
\* unchanged in every state of the run, whatever staging holds for its key;
\* a partition the run added is the staged partition of a key that was absent.
C7_CanonicalWins ==
    \A i \in Instruments :
        /\ \A k \in DOMAIN raw0[i].tables :
              k \in DOMAIN raw[i].tables /\ raw[i].tables[k] = raw0[i].tables[k]
        /\ \A k \in Added(i) :
              split[i].exists =>
                 k \in DOMAIN split[i].tables /\ raw[i].tables[k] = split[i].tables[k]

\* C7 witness: the merge job of an instrument has ended, staging held other
\* records than canonical for a key they share, and a staged key was added.
C7_Witness ==
    \E i \in Instruments :
        /\ job[i] = "done"
        /\ Added(i) # {}
        /\ \E k \in (DOMAIN raw0[i].tables) \cap (DOMAIN split[i].tables) :
              split[i].tables[k] # raw0[i].tables[k]

\* C8 (as claimed): once the pipeline has ended, every task whose fetch gave
\* records and whose key the canonical store did not have has its partition
\* in the canonical store, holding the fetched records.
C8_NoFetchedPartitionLost ==
    phase = "done" =>
        \A w \in DOMAIN task_chunks : \A j \in DOMAIN fetched[w] :
            LET i == task_chunks[w][j][1] IN
            (fetched[w][j] # <<>> /\ TaskKey(w, j) \notin DOMAIN raw0[i].tables) =>
                /\ TaskKey(w, j) \in DOMAIN raw[i].tables
                /\ raw[i].tables[TaskKey(w, j)] = fetched[w][j]

\* C9 (as claimed): every partition the pipeline added to a canonical store
\* is sorted by timestamp and holds no timestamp twice.
C9_AddedPartitionsSorted ==
    \A i \in Instruments : \A k \in Added(i) : StrictlyAscending(raw[i].tables[k])

\* C10 (as claimed): whenever a step deletes a temp file, every partition the
\* file held is in the staging store after the step.
C10_DeletedOnlyWhenMerged ==
    [][\A w \in DOMAIN temp :
          (temp[w].exists /\ w \in DOMAIN temp' /\ ~temp'[w].exists) =>
              \A k \in DOMAIN temp[w].tables :
                  k \in DOMAIN final'.tables /\ final'.tables[k] = temp[w].tables[k]]_vars

\* ------------------------------------------------- store claims, continued
TimestampsOf(rows) == {rows[k].timestamp : k \in DOMAIN rows}
\* The timestamps a partition of instrument i holds before the step.
PriorTimestamps(i, k) ==
    IF k \in DOMAIN raw[i].tables THEN TimestampsOf(raw[i].tables[k]) ELSE {}

\* C11: a store_tick_data call that completes leaves, at the key of every day
\* that occurs in its records, a partition whose timestamps are exactly those
\* the partition held before together with the incoming ones of that day, one
\* record per timestamp.
C11_PartitionIsUnion ==
    [][lastCall'.outcome = "stored" =>
          \A n \in DOMAIN GroupDays(lastCall'.df.rows) :
              LET i == lastCall'.asset
                  day == GroupDays(lastCall'.df.rows)[n]
                  k == Key(i, day)
                  union == PriorTimestamps(i, k)
                               \cup TimestampsOf(Group(lastCall'.df.rows, day))
              IN /\ k \in DOMAIN raw'[i].tables
                 /\ TimestampsOf(raw'[i].tables[k]) = union
                 /\ Len(raw'[i].tables[k]) = Cardinality(union)]_vars

\* C11 witness: a completed call whose records of one day were merged into a
\* partition that already held another timestamp of that day.
C11_Witness ==
    /\ lastCall.outcome = "stored"
    /\ \E n \in DOMAIN GroupDays(lastCall.df.rows) :
          LET day == GroupDays(lastCall.df.rows)[n]
              k == Key(lastCall.asset, day)
          IN /\ k \in DOMAIN raw[lastCall.asset].tables
             /\ TimestampsOf(Group(lastCall.df.rows, day)) # {}
             /\ TimestampsOf(raw[lastCall.asset].tables[k])
                    \ TimestampsOf(Group(lastCall.df.rows, day)) # {}

\* C12 (as claimed): no step removes a partition of a canonical store or a
\* timestamp of one, or changes the record stored under a timestamp.
C12_CommittedNeverRemoved ==
    [][\A i \in Instruments : \A k \in DOMAIN raw[i].tables :
          /\ k \in DOMAIN raw'[i].tables
          /\ \A n \in DOMAIN raw[i].tables[k] :
                \E m \in DOMAIN raw'[i].tables[k] :
                    raw'[i].tables[k][m] = raw[i].tables[k][n]]_vars

\* --------------------------------------------- Gap-Repair claims, continued
\* The passes of main in their order: PARSE has given all_tasks ("start"),
\* SHARD and FETCH ("fetch"), MERGE_TEMP ("merge_temp"), SPLIT_BY_INSTRUMENT
\* followed by MERGE_TO_CANONICAL ("merge_raw"), CLEANUP ("done").
PassOrder == <<"start", "fetch", "merge_temp", "merge_raw", "done">>
PassNumber(p) == CHOOSE n \in DOMAIN PassOrder : PassOrder[n] = p

\* C20: a run goes through its passes one after the other in the fixed order;
\* MERGE_TEMP has begun only with every worker at the end of its chunk, the
\* split exists only with every temp file gone through, a merge job has begun
\* and a canonical store changes only after the split, and CLEANUP has
\* happened only with every merge job ended.
C20_PassesInOrder ==
    /\ [](/\ PassNumber(phase) >= 3 => \A w \in DOMAIN task_chunks :
                                            wpos[w] = Len(task_chunks[w])
          /\ PassNumber(phase) < 3 => merged = 0 /\ ~final.exists
          /\ PassNumber(phase) >= 4 => merged = Len(temp)
          /\ PassNumber(phase) < 4 =>
                 \A i \in Instruments : job[i] = "none" /\ ~split[i].exists /\ raw[i] = raw0[i]
          /\ PassNumber(phase) = 5 => \A i \in Instruments : job[i] \in {"none", "done"})
    /\ [][/\ phase' # phase => PassNumber(phase') = PassNumber(phase) + 1
          /\ raw' # raw => phase = "merge_raw" /\ phase' = "merge_raw"]_vars

\* C20 witness: a run with two workers, two temp files and a merge job that
\* added a partition has reached CLEANUP.
C20_Witness ==
    /\ phase = "done"
    /\ Len(task_chunks) = 2
    /\ \A w \in DOMAIN task_chunks : Len(fetched[w]) > 0
    /\ \E i \in Instruments : job[i] = "done" /\ Added(i) # {}

\* ------------------------------------------------------ Orchestrator claims
\* The days strictly between the last-known date of row t and end_date,
\* ascending.
Walk(t) == Ascending({d \in Days : symbols_dates[t][2] < d /\ d < end_date})
Prefix(s, w) == Len(s) <= Len(w) /\ s = SubSeq(w, 1, Len(s))
TaskEnded(t) == future[t] \in {"finished", "caught"}

\* C13 (as claimed): the Fetch Client calls of a task are calls for the days
\* strictly between its last-known date and end_date, in ascending order and
\* one per day, and a task that has ended has called for every one of them.
C13_EveryDayFetchedOnce ==
    \A t \in DOMAIN future :
        /\ Prefix(fetch_log[t], Walk(t))
        /\ TaskEnded(t) => fetch_log[t] = Walk(t)

\* C14: main returns only with every task ended, every run of main returns,
\* and a step in which one task ends in its exception handler changes no
\* other task.
C14_TasksIsolated ==
    /\ [](bphase = "returned" => \A t \in DOMAIN future : TaskEnded(t))
    /\ [][\A t \in (DOMAIN future) \cap (DOMAIN future') :
             (future[t] # "caught" /\ future'[t] = "caught") =>
                 \A u \in (DOMAIN future) \ {t} :
                     future'[u] = future[u] /\ fetch_log'[u] = fetch_log[u]]_vars
    /\ <>(bphase = "returned")

\* C14 witness: main has returned, a task ended in its exception handler and
\* a task submitted after it went through both days of its walk.
C14_Witness ==
    /\ bphase = "returned"
    /\ \E t, u \in DOMAIN future :
          /\ t < u
          /\ future[t] = "caught"
          /\ future[u] = "finished"
          /\ Len(fetch_log[u]) = 2

\* C15 (as claimed): no two running tasks work for the same instrument.
C15_OneTaskPerInstrument ==
    \A t, u \in DOMAIN future :
        (t # u /\ future[t] = "running" /\ future[u] = "running") =>
            symbols_dates[t][1] # symbols_dates[u][1]

\* ----------------------------------------------------------- scanner claims
\* The business days of the scan range: every date but the Saturdays, from
\* start_date to end_date where they are given.
Saturday(d) == weekday(d) = 5
Within(d) ==
    /\ scan_range.start # <<>> => scan_range.start[1] <= d
    /\ scan_range.end # <<>> => d <= scan_range.end[1]
BusinessDays == {d \in ScanDates : ~Saturday(d) /\ Within(d)}
\* The dates scan_hdf5 goes through on a file: the business days of the
\* range that lie in a month group the file has.
Examined(file) ==
    {d \in BusinessDays : \E m \in ScanMonths :
        /\ d \in MonthDates(m)
        /\ \E e \in MonthDates(m) : file.days[e] # "absent"}
Returned(i) == scan_result[i].state = "returned"
Rows(list) == {list[n] : n \in DOMAIN list}
\* The instrument has a group in the file.
InStore(i) == \E d \in ScanDates : h5[i].days[d] # "absent"

\* C16 (as claimed): a scan_hdf5 call that returned lists every business day
\* of the range whose partition the store of an instrument lacks.
C16_AbsentDaysListed ==
    \A i \in Instruments : (Returned(i) /\ InStore(i)) =>
        \A d \in BusinessDays :
            h5[i].days[d] = "absent" => <<i, d>> \in Rows(scan_result[i].missing_groups)

\* The good days of the range: business days whose partition is there and reads.
GoodDays(i) == {d \in BusinessDays : h5[i].days[d] = "good"}

\* C17: a scan_hdf5 call that returned reports, for an instrument with a good
\* day in the range, exactly one row, which names the latest good day; for an
\* instrument with none it reports no row.
C17_LastGoodIsLatest ==
    \A i \in Instruments : Returned(i) =>
        IF GoodDays(i) = {} THEN scan_result[i].last_updates = <<>>
        ELSE scan_result[i].last_updates =
                 <<<<i, CHOOSE d \in GoodDays(i) : \A e \in GoodDays(i) : e <= d>>>>

\* C17 witness: the latest good day follows a missing day and a good day.
C17_Witness ==
    \E i \in Instruments :
        /\ Returned(i)
        /\ scan_result[i].last_updates # <<>>
        /\ \E d, e \in BusinessDays :
              /\ d < e /\ e < scan_result[i].last_updates[1][2]
              /\ h5[i].days[d] = "good"
              /\ h5[i].days[e] = "absent"

\* The partitions of the range that are there but do not read.
Unreadable(i) ==
    {d \in BusinessDays : h5[i].exists /\ h5[i].days[d] \in {"no_table", "bad_table"}}

\* C18 (as claimed): once the file of an instrument has been processed,
\* every unreadable partition of it is in the aggregated missing_tables.
C18_UnreadableRecorded ==
    \A i \in Instruments : scan_result[i].state # "none" =>
        \A d \in Unreadable(i) : <<i, d>> \in Rows(all_missing_tables)

\* C19: the dates a scan_hdf5 call found good, listed as missing groups and
\* listed as missing tables are disjoint, none occurs twice, together they
\* are the business days of the range in the month groups the file has, and
\* each is in the list of its outcome.
C19_OneOutcomePerDay ==
    \A i \in Instruments : Returned(i) =>
        LET r == scan_result[i]
            good == Rows(r.good)
            groups == {row[2] : row \in Rows(r.missing_groups)}
            tables == {row[2] : row \in Rows(r.missing_tables)}
        IN /\ good \cup groups \cup tables = Examined(h5[i])
           /\ Len(r.good) + Len(r.missing_groups) + Len(r.missing_tables)
                  = Cardinality(Examined(h5[i]))
           /\ \A d \in good : h5[i].days[d] = "good"
           /\ \A d \in groups : h5[i].days[d] = "absent"
           /\ \A d \in tables : h5[i].days[d] \in {"no_table", "bad_table"}
           /\ \A row \in Rows(r.last_updates) \cup Rows(r.missing_groups)
                             \cup Rows(r.missing_tables) :
                 row[1] = i /\ ~Saturday(row[2]) /\ Within(row[2])

\* C19 witness: a scan with both dates given met each outcome, on a file
\* that has a partition on the Saturday and partitions outside the range.
C19_Witness ==
    \E i \in Instruments :
        /\ Returned(i)
        /\ scan_range.start # <<>> /\ scan_range.end # <<>>
        /\ scan_result[i].good # <<>>
        /\ scan_result[i].missing_groups # <<>>
        /\ \E d \in ScanDates : Saturday(d) /\ h5[i].days[d] # "absent"
        /\ \E d \in ScanDates : ~Within(d) /\ h5[i].days[d] # "absent"

\* ------------------------------------------------- Gap-Repair claims (SHARD)
\* The in-order concatenation of the shards.
RECURSIVE Concatenation(_)
Concatenation(chunks) ==
    IF chunks = <<>> THEN <<>>
    ELSE Head(chunks) \o Concatenation(Tail(chunks))

\* chunks is lst cut into n shards in order, the first (len mod n) of them one
\* task longer than the others.
EvenlySharded(lst, n, chunks) ==
    /\ Len(chunks) = n
    /\ Concatenation(chunks) = lst
    /\ \A i \in 1..Len(chunks) :
          Len(chunks[i]) = (Len(lst) \div n) + (IF i <= Len(lst) % n THEN 1 ELSE 0)
    /\ \A i, j \in 1..Len(chunks) :
          Len(chunks[i]) - Len(chunks[j]) \in {-1, 0, 1}

\* Shard counts to ask chunkify for: fewer than, as many as and more than the
\* tasks of the longest list.
ShardCounts == 1..(MaxTasks + 1)

\* C21: for the task list a run reads and every n >= 1, chunkify(tasks, n) is
\* n shards whose in-order concatenation is the task list, the first
\* (len mod n) of them one task longer than the others; and the shards main
\* made are such a split when the workers start on them.
C21_ChunkifyPartitions ==
    /\ phase = "start" =>
          \A n \in ShardCounts : EvenlySharded(all_tasks, n, chunkify(all_tasks, n))
    /\ (phase = "fetch" /\ \A w \in DOMAIN wpos : wpos[w] = 0) =>
          EvenlySharded(all_tasks, Len(task_chunks), task_chunks)

\* C21 witness: main split a list over more than one worker with a remainder,
\* so the first shard is the longer one.
C21_Witness ==
    /\ phase = "fetch"
    /\ \A w \in DOMAIN wpos : wpos[w] = 0
    /\ Len(task_chunks) > 1
    /\ Len(all_tasks) % Len(task_chunks) # 0
    /\ Len(task_chunks[1]) = Len(task_chunks[Len(task_chunks)]) + 1

\* C22: during FETCH every step that writes a temp file is an iteration of the
\* one worker the file belongs to, so no two workers ever open the same file,
\* and no step of a worker writes the staging store, a per-instrument staging
\* file or a canonical store.
C22_TempFilesOwned ==
    [][(phase = "fetch" /\ phase' = "fetch") =>
          /\ \A f \in DOMAIN temp :
                temp'[f] # temp[f] =>
                    /\ wpos'[f] = wpos[f] + 1
                    /\ \A w \in (DOMAIN wpos) \ {f} : wpos'[w] = wpos[w]
          /\ final' = final
          /\ split' = split
          /\ raw' = raw]_vars

\* C22 witness: two workers of the pool have each stored a task, each into
\* its own temp file, and main has not yet left the pool.
C22_Witness ==
    /\ phase = "fetch"
    /\ \E v, w \in DOMAIN temp :
          /\ v # w
          /\ temp[v].exists /\ temp[w].exists
          /\ fetched[v] # <<>> /\ fetched[w] # <<>>

\* A task of a worker ended without records: the fetch raised, or gave nothing
\* the worker stores.
FetchFailed == \E w \in DOMAIN fetched : \E j \in DOMAIN fetched[w] : fetched[w][j] = <<>>

\* C23 (as claimed): when a task of a worker failed, once main has left the
\* worker pool every worker has gone through all its tasks, and once
\* merge_hdf5_files has gone through the temp files every partition a worker
\* stored is in the staging store.
C23_FetchFailureIsolated ==
    FetchFailed =>
        /\ phase \in {"merge_temp", "merge_raw", "done"} =>
              \A w \in DOMAIN task_chunks : wpos[w] = Len(task_chunks[w])
        /\ (phase = "merge_temp" /\ merged = Len(temp)) =>
              \A w \in DOMAIN fetched : \A j \in DOMAIN fetched[w] :
                  fetched[w][j] # <<>> => TaskKey(w, j) \in DOMAIN final.tables

\* ------------------------------------------------- fetch claims (error classes)
\* C24 (as claimed): an attempt whose worker exited with code 0 and wrote
\* nothing to stdout makes the call return only when no attempt remains; with
\* attempts remaining the call goes on to the backoff and another attempt.
C24_EmptyOutputRetried ==
    \A t \in Tasks : pending[t] = "return_default" => attempt[t] >= FETCH_MAX_RETRIES

\* C25: an attempt that ended in a timeout, a non-zero exit or output that is
\* not JSON (the try block left with nothing to return or raise) is followed,
\* while fewer than FETCH_MAX_RETRIES attempts were made, by the backoff sleep
\* and then by the next attempt; and the call whose attempt got records
\* returns them, whatever attempts failed before.
C25_TransientRetried ==
    [][\A t \in Tasks :
          /\ (pc[t] = "finally" /\ pending[t] = "retry" /\ pc'[t] # "finally") =>
                pc'[t] = "backoff" /\ result'[t] = result[t]
          /\ (pc[t] = "backoff" /\ attempt[t] < FETCH_MAX_RETRIES /\ pc'[t] # "backoff") =>
                pc'[t] = "sleep" /\ attempt'[t] = attempt[t]
          /\ (pc[t] = "sleep" /\ pc'[t] # "sleep") =>
                pc'[t] = "while" /\ attempt'[t] = attempt[t] /\ attempt[t] < FETCH_MAX_RETRIES
          /\ (pc[t] = "while" /\ attempt[t] < FETCH_MAX_RETRIES /\ pc'[t] # "while") =>
                pc'[t] = "acquire" /\ attempt'[t] = attempt[t] + 1
          /\ (pc[t] = "finally" /\ pending[t] = "return_list" /\ pc'[t] # "finally") =>
                pc'[t] = "returned" /\ result'[t] = "list"]_vars

\* C25 witness: a call returned the records of its last attempt, after every
\* earlier attempt had failed and been retried.
C25_Witness ==
    \E t \in Tasks :
        /\ pc[t] = "returned" /\ result[t] = "list"
        /\ attempt[t] = FETCH_MAX_RETRIES /\ invocations[t] = FETCH_MAX_RETRIES

\* C26: when the launch of the worker fails with process-not-found (the one
\* launch failure the call does not pass on to its caller), the call decides
\* to return [] and, through `finally`, returns it with no backoff, no sleep
\* and no further attempt, whatever number of attempts remain; a call that
\* returned starts nothing more.
C26_NotFoundAborts ==
    [][\A t \in Tasks :
          /\ (pc[t] = "launch" /\ pc'[t] = "finally" /\ pending'[t] # "raise") =>
                pending'[t] = "return_empty"
          /\ (pc[t] = "finally" /\ pending[t] = "return_empty" /\ pc'[t] # "finally") =>
                /\ pc'[t] = "returned"
                /\ result'[t] = "empty"
          /\ ((pc[t] = "finally" /\ pending[t] = "return_empty") \/ pc[t] = "returned") =>
                /\ attempt'[t] = attempt[t]
                /\ invocations'[t] = invocations[t]
                /\ pc'[t] \in {"finally", "returned"}]_vars

\* C26 witness: the first attempt of a call is left through `finally` with []
\* to return, one invocation made and attempts remaining, while another call
\* has returned [] before it had made its last attempt.
C26_Witness ==
    /\ \E t \in Tasks :
          /\ pc[t] = "finally" /\ pending[t] = "return_empty"
          /\ attempt[t] = 1 /\ invocations[t] = 1
    /\ \E t \in Tasks :
          /\ pc[t] = "returned" /\ result[t] = "empty"
          /\ invocations[t] < FETCH_MAX_RETRIES

\* ------------------------------------------------ store claims (write faults)
\* The (year, month, day) groups of the last call whose records are not all in
\* the store of its instrument.
Unwritten ==
    {d \in {DayOf(lastCall.df.rows[j].timestamp) : j \in DOMAIN lastCall.df.rows} :
        \/ Key(lastCall.asset, d) \notin DOMAIN raw[lastCall.asset].tables
        \/ ~(TimestampsOf(Group(lastCall.df.rows, d))
               \subseteq TimestampsOf(raw[lastCall.asset].tables[Key(lastCall.asset, d)]))}

\* C27 (as claimed): after a store_tick_data call in which the put of one
\* partition failed, every other partition the call covers has been written:
\* at most the failing one lacks records of the call.
C27_PutFailureIsolated ==
    lastCall.outcome = "raised" => Cardinality(Unwritten) <= 1

\* ------------------------------------------------- fetch claims (progress)
\* C28: under fair scheduling, with every worker invocation ending, no task
\* waits forever for a slot of the semaphore, and from some point on the call
\* of every task has ended for good: no deadlock and no starvation, whatever
\* the attempts of the tasks run into.
C28_EveryCallEnds ==
    /\ \A t \in Tasks : []<>(pc[t] # "acquire")
    /\ <>[](\A t \in Tasks : Ended(t))

\* C28 witness: a task waits for a slot while the other tasks hold every slot
\* of the semaphore, one of them in a retry after a timeout.
C28_Witness ==
    /\ FETCH_SEMAPHORE = 0
    /\ \E t \in Tasks : pc[t] = "acquire" /\ attempt[t] = 1
    /\ \E t \in Tasks : pc[t] = "run" /\ attempt[t] > 1 /\ onlyTimeouts[t]

\* ------------------------------------------- Gap-Repair claims (MERGE_TO_CANONICAL)
\* What the merge of a staged per-instrument file into a canonical file leaves,
\* whatever the order of the puts: the canonical file with the staged
\* partitions of the keys it did not have.
MergedStore(raw_file, fetched_file) ==
    IF ~raw_file.exists \/ ~fetched_file.exists THEN raw_file
    ELSE [exists |-> TRUE,
          tables |-> [k \in (DOMAIN raw_file.tables) \cup (DOMAIN fetched_file.tables) |->
                        IF k \in DOMAIN raw_file.tables THEN raw_file.tables[k]
                        ELSE fetched_file.tables[k]]]

JobsOver == phase = "merge_raw" /\ \A i \in Instruments : job[i] \in {"none", "done"}

\* C29: once the merge jobs are over, each canonical store is the store the
\* run found merged with the staged file of its instrument, in whatever order
\* and interleaving the jobs ran; and every step that writes a canonical file
\* is a step of the one job of its instrument, so no two jobs ever have the
\* same canonical file open.
C29_MergeOrderIrrelevant ==
    /\ [](JobsOver => \A i \in Instruments : raw[i] = MergedStore(raw0[i], split[i]))
    /\ [][phase = "merge_raw" =>
            \A f \in Instruments :
                raw'[f] # raw[f] =>
                    /\ job[f] = "open"
                    /\ jobKeys'[f] = Tail(jobKeys[f])
                    /\ \A i \in Instruments \ {f} : jobKeys'[i] = jobKeys[i]]_vars

\* C29 witness: the jobs of two instruments have their files open at once,
\* one has added a partition and the other has a partition still to merge.
C29_Witness ==
    \E i, j \in Instruments :
        /\ i # j
        /\ job[i] = "open" /\ job[j] = "open"
        /\ Added(i) # {}
        /\ \E n \in DOMAIN jobKeys[j] : jobKeys[j][n] \notin DOMAIN raw[j].tables

\* ------------------------------------------------ claims on empty partitions
NoEmptyPartition(file) == \A k \in DOMAIN file.tables : file.tables[k] # <<>>

\* C30: no temp file, staging store, per-instrument staging file or canonical
\* store ever holds a partition without records; and an iteration of a worker
\* whose fetch gave nothing to store writes no store at all, not even the
\* worker's temp file.
C30_NoEmptyPartition ==
    /\ [](/\ \A i \in Instruments : NoEmptyPartition(raw[i]) /\ NoEmptyPartition(split[i])
          /\ \A w \in DOMAIN temp : NoEmptyPartition(temp[w])
          /\ NoEmptyPartition(final))
    /\ [][\A w \in DOMAIN wpos :
            (w \in DOMAIN wpos' /\ wpos'[w] = wpos[w] + 1 /\ fetched'[w][wpos'[w]] = <<>>) =>
                temp' = temp /\ final' = final /\ split' = split /\ raw' = raw]_vars

\* C30 witness: a worker whose fetch gave nothing has no temp file, another
\* worker stored its records, and the run merged them into a canonical store.
C30_Witness ==
    /\ \E w \in DOMAIN fetched : fetched[w] = <<<<>>>> /\ wpos[w] = 1
    /\ \E w \in DOMAIN fetched : \E j \in DOMAIN fetched[w] : fetched[w][j] # <<>>
    /\ \E i \in Instruments : job[i] = "done" /\ Added(i) # {}

\* ------------------------------------------------ Gap-Repair claims (CLEANUP)
\* The working directory after CLEANUP, and after a run with --no-cleanup.
Cleaned == final = NoFile /\ ~fetched_dir /\ \A i \in Instruments : split[i] = NoFile
Kept ==
    /\ final.exists
    /\ fetched_dir
    /\ \A i \in Instruments : split[i] = Decomposed(final, i)

\* C31: once a run has ended (every deletion succeeding), no temp worker file
\* exists; and either final_tick_data.h5 and split_by_instrument with its
\* files are gone, or (--no-cleanup) all of them are still there.
C31_ArtifactsGone ==
    phase = "done" =>
        /\ \A w \in DOMAIN temp : ~temp[w].exists
        /\ Cleaned \/ Kept

\* C31 witness: a run whose two workers each wrote a temp file and whose
\* staging held partitions has ended with everything deleted.
C31_Witness ==
    /\ phase = "done"
    /\ Cleaned
    /\ Len(temp) > 1
    /\ \A w \in DOMAIN fetched : \E j \in DOMAIN fetched[w] : fetched[w][j] # <<>>
    /\ \E i \in Instruments : Added(i) # {}

\* ------------------------------------------------ store claims (partitioning)
\* The UTC calendar day a millisecond timestamp lies in.
UtcDay(ts) ==
    CHOOSE d \in 0..ts : d * MsPerDay <= ts /\ ts < (d + 1) * MsPerDay

RecordsOf(rows) == {rows[k] : k \in DOMAIN rows}

\* C32: a partition of a store holds only records of the UTC day of its key;
\* a store_tick_data call that completes leaves every record's timestamp in
\* the partition of the record's instrument and UTC day; and a call that
\* writes k records of one day with distinct timestamps to a store without
\* partitions leaves that one partition, holding exactly those k records.
C32_PartitionedByUtcDay ==
    /\ [](\A i \in Instruments : \A k \in DOMAIN raw[i].tables :
             \A n \in DOMAIN raw[i].tables[k] :
                 k = Key(i, UtcDay(raw[i].tables[k][n].timestamp)))
    /\ [][lastCall'.outcome = "stored" =>
            LET i == lastCall'.asset
                rows == lastCall'.df.rows
            IN /\ \A n \in DOMAIN rows :
                      LET k == Key(i, UtcDay(rows[n].timestamp))
                      IN /\ k \in DOMAIN raw'[i].tables
                         /\ rows[n].timestamp \in TimestampsOf(raw'[i].tables[k])
               /\ (/\ DOMAIN raw[i].tables = {}
                   /\ Cardinality(TimestampsOf(rows)) = Len(rows)
                   /\ \A m, n \in DOMAIN rows :
                         UtcDay(rows[m].timestamp) = UtcDay(rows[n].timestamp)) =>
                      /\ DOMAIN raw'[i].tables = {Key(i, UtcDay(rows[1].timestamp))}
                      /\ \A k \in DOMAIN raw'[i].tables :
                            /\ Len(raw'[i].tables[k]) = Len(rows)
                            /\ RecordsOf(raw'[i].tables[k]) = RecordsOf(rows)]_vars

\* C32 witness: a call wrote two records of day 1 with distinct timestamps,
\* given out of order, to a store that had no partition, which now holds the
\* one partition of that day.
C32_Witness ==
    /\ lastCall.outcome = "stored"
    /\ Len(lastCall.df.rows) = 2
    /\ lastCall.df.rows[1].timestamp > lastCall.df.rows[2].timestamp
    /\ UtcDay(lastCall.df.rows[2].timestamp) = 1
    /\ DOMAIN raw[lastCall.asset].tables = {Key(lastCall.asset, 1)}
    /\ Len(raw[lastCall.asset].tables[Key(lastCall.asset, 1)]) = 2

\* ------------------------------------------ fetch_and_store_tick_data claims
\* The days of [start_date, end_date), ascending.
DaysOfRange(args) ==
    [n \in 1..Max(0, args.end_date - args.start_date) |-> args.start_date + n - 1]

\* The days of the log whose fetch gave records with a timestamp and whose
\* store call completed.
StoredDays(log) == {n \in DOMAIN log : log[n].kind = "rows" /\ log[n].stored}

\* C33: the days a fetch_and_store_tick_data call fetches are the days of
\* [start, end), each once and in ascending order: at any time a prefix of
\* them, and all of them once the call has ended; the call ends by returning
\* the number of days whose fetch gave records with a timestamp and whose
\* store call completed without raising.
C33_EveryDayFetchedAndCounted ==
    /\ Len(manual_log) <= Len(DaysOfRange(manual_args))
    /\ \A n \in DOMAIN manual_log : manual_log[n].day = DaysOfRange(manual_args)[n]
    /\ mphase \in {"returned", "raised"} =>
          /\ Len(manual_log) = Len(DaysOfRange(manual_args))
          /\ mphase = "returned"
          /\ saved_days = Cardinality(StoredDays(manual_log))

\* ------------------------------------------------ Gap-Repair claims (FETCH)
\* The timestamps the tasks worker w has gone through yielded for a key.
YieldedFor(w, key) ==
    UNION {TimestampsOf(fetched[w][j]) :
              j \in {n \in DOMAIN fetched[w] :
                        Key(task_chunks[w][n][1], task_chunks[w][n][2]) = key}}

\* C34: while the workers fetch, each partition of a worker's temp file holds
\* the deduplicated union of the records the worker's tasks yielded for that
\* key, each timestamp once; and a MERGE_TEMP pass over a temp file leaves
\* every partition of that file in the staging store.
C34_TempMergesAndIsCarried ==
    /\ [](phase = "fetch" =>
            \A w \in DOMAIN temp : \A i \in Instruments : \A d \in Days :
                YieldedFor(w, Key(i, d)) # {} =>
                    /\ temp[w].exists
                    /\ Key(i, d) \in DOMAIN temp[w].tables
                    /\ TimestampsOf(temp[w].tables[Key(i, d)]) = YieldedFor(w, Key(i, d))
                    /\ Len(temp[w].tables[Key(i, d)]) = Cardinality(YieldedFor(w, Key(i, d))))
    /\ [][(phase = "merge_temp" /\ merged' = merged + 1) =>
            \A k \in DOMAIN temp[merged'].tables :
                /\ k \in DOMAIN final'.tables
                /\ final'.tables[k] = temp[merged'].tables[k]]_vars

\* ------------------------------------------------ Gap-Repair claims (SHARD)
\* The cap on the workers a command line configures: --workers, else the
\* environment's PARALLEL_MAX_WORKERS.
ConfiguredCap(workers) == IF workers # 0 THEN workers ELSE PARALLEL_MAX_WORKERS
NonEmptyShards(chunks) ==
    Cardinality({n \in 1..Len(chunks) : Len(chunks[n]) > 0})

\* C35: once main has submitted the FETCH workers, whatever cap the command
\* line configured, the workers started are as many as the non-empty shards
\* and at most min(cap, number of tasks); none is started for an empty
\* shard, and none at all for an empty task list.
C35_WorkersStarted ==
    (phase = "fetch" /\ \A w \in DOMAIN wpos : wpos[w] = 0) =>
        /\ Cardinality(Submitted(task_chunks)) = NonEmptyShards(task_chunks)
        /\ \A workers \in 0..(PARALLEL_MAX_WORKERS + 1) :
              task_chunks = chunkify(all_tasks, desired_workers(workers, all_tasks)) =>
                  Cardinality(Submitted(task_chunks))
                      <= Min(ConfiguredCap(workers), Len(all_tasks))
        /\ \A w \in Submitted(task_chunks) : Len(task_chunks[w]) > 0
        /\ all_tasks = <<>> => Submitted(task_chunks) = {}

\* C35 witness: the cap is larger than the task count, so that a shard is
\* empty: the worker of the one task has run, the empty shard has no worker.
C35_Witness ==
    /\ phase = "fetch"
    /\ Len(all_tasks) = 1
    /\ Len(task_chunks) > 1
    /\ wpos[1] = 1
    /\ Submitted(task_chunks) = {1}

\* -------------------------------------------------- fetch claims (backoff)
\* b = min(backoff_max, backoff_base * 2^(k-1)), by doubling from the base.
RECURSIVE DoubledUntilCapped(_)
DoubledUntilCapped(k) ==
    IF k <= 1 THEN FETCH_BACKOFF_BASE
    ELSE IF 2 * DoubledUntilCapped(k - 1) > FETCH_BACKOFF_MAX THEN FETCH_BACKOFF_MAX
         ELSE 2 * DoubledUntilCapped(k - 1)

\* C36: a backoff is slept only after a failed attempt k with
\* 1 <= k < max_retries, and whatever the jitter it lasts between half of b
\* and b, where b is the base doubled k-1 times and capped at backoff_max, so
\* never more than backoff_max; a call in its k-th attempt, or ended after
\* it, has started exactly k-1 backoffs: one between two consecutive
\* attempts, none after the last.
C36_BackoffBounds ==
    \A t \in Tasks :
        /\ pc[t] = "sleep" =>
              /\ 1 <= attempt[t] /\ attempt[t] < FETCH_MAX_RETRIES
              /\ sleep_time(attempt[t]) # {}
              /\ \A d \in sleep_time(attempt[t]) :
                    /\ 2 * d >= DoubledUntilCapped(attempt[t])
                    /\ d <= DoubledUntilCapped(attempt[t])
                    /\ d <= FETCH_BACKOFF_MAX
              /\ backoffs[t] = attempt[t]
        /\ (pc[t] \notin {"sleep", "while", "idle"} /\ attempt[t] >= 1) =>
              backoffs[t] = attempt[t] - 1
        /\ pc[t] = "while" => backoffs[t] \in {attempt[t], Max(0, attempt[t] - 1)}
        /\ (pc[t] = "while" /\ attempt[t] < FETCH_MAX_RETRIES) => backoffs[t] = attempt[t]

\* C36 witness: a task sleeps its second backoff, which is capped and with
\* the largest jitter lasts backoff_max, while another has ended after its
\* last attempt failed, having slept two backoffs.
C36_Witness ==
    \E t, u \in Tasks :
        /\ pc[t] = "sleep" /\ attempt[t] = 2 /\ backoffs[t] = 2
        /\ FETCH_BACKOFF_MAX \in sleep_time(attempt[t])
        /\ FETCH_BACKOFF_MAX < 2 * FETCH_BACKOFF_BASE
        /\ pc[u] = "returned" /\ attempt[u] = FETCH_MAX_RETRIES /\ backoffs[u] = 2
        /\ invocations[u] = FETCH_MAX_RETRIES

\* ----------------------------------------------- batch claims (Store errors)
\* C37: a task in which store_tick_data raised on some day goes on through
\* its walk: it does not end in its exception handler, before end_date, with
\* a later day's result unwritten, and once it has ended it has fetched
\* every day of the walk.
C37_StoreErrorCaughtAtDay ==
    \A t \in DOMAIN future :
        store_failed[t] =>
            /\ future[t] # "caught"
            /\ TaskEnded(t) => fetch_log[t] = Walk(t)

\* ------------------------------------------ fetch claims (slots and sleeps)
\* Tasks inside the try block of an attempt, from the acquire to `finally`.
InAttempt == {t \in Tasks : pc[t] \in {"launch", "run", "throttle", "finally"}}
BackingOff == {t \in Tasks : pc[t] \in {"backoff", "sleep"}}

\* C38: the slots taken are those of the tasks inside an attempt, one each,
\* so a task that backs off or sleeps its backoff holds none (its attempt
\* released the slot it had acquired); while no task is inside an attempt
\* every slot is free, however many tasks sleep, so a task waiting for a slot
\* can invoke the worker.
C38_BackoffHoldsNoSlot ==
    /\ FETCH_SEMAPHORE = MAX_CONCURRENT_FETCHES - Cardinality(InAttempt)
    /\ BackingOff \cap InAttempt = {}
    /\ (BackingOff # {} /\ InAttempt = {}) => FETCH_SEMAPHORE = MAX_CONCURRENT_FETCHES
    /\ \A t \in BackingOff : attempt[t] >= 1 /\ invocations[t] >= 1

\* C38 witness: a task sleeps its backoff while another, which took the slot
\* the failed attempt released, has the worker running.
C38_Witness ==
    \E t, u \in Tasks :
        /\ pc[t] = "sleep"
        /\ pc[u] = "run"
        /\ FETCH_SEMAPHORE = MAX_CONCURRENT_FETCHES - 1

\* Tasks whose worker invocation is in flight, or that sleep the throttle
\* delay after it.
InFlightOrThrottling == {t \in Tasks : pc[t] \in {"run", "throttle"}}

\* C39: a task that sleeps the throttle delay after a successful invocation
\* still holds the slot of its attempt, so the tasks whose invocation is in
\* flight or that are throttling each hold a slot and are never more than N.
C39_ThrottleHoldsSlot ==
    /\ \A t \in Tasks : pc[t] = "throttle" => acquired[t]
    /\ Cardinality(InFlightOrThrottling) <= MAX_CONCURRENT_FETCHES - FETCH_SEMAPHORE
    /\ Cardinality(InFlightOrThrottling) <= MAX_CONCURRENT_FETCHES

\* C39 witness: a task throttles with every slot taken while another task
\* waits for a slot.
C39_Witness ==
    \E t, u \in Tasks :
        /\ pc[t] = "throttle" /\ pending[t] = "return_list"
        /\ pc[u] = "acquire"
        /\ FETCH_SEMAPHORE = 0
        /\ Cardinality(InFlightOrThrottling) = MAX_CONCURRENT_FETCHES

\* ------------------------------------------- Gap-Repair claims (MERGE_RAW)
\* C40: a run creates no canonical store file: a canonical file exists
\* exactly when it did at the start of the run, and the file of an instrument
\* that had none stays absent and its job opens no store; the job of an
\* instrument whose canonical or staging file is missing ends at once, in a
\* step that changes no store, so the staged partitions stay unmerged.
C40_NoCanonicalFileCreated ==
    /\ [](\A i \in Instruments :
             /\ raw[i].exists = raw0[i].exists
             /\ ~raw0[i].exists => /\ raw[i] = NoFile
                                   /\ job[i] # "open"
                                   /\ jobKeys[i] = <<>>)
    /\ [][\A i \in Instruments :
             (job[i] = "queued" /\ (~split[i].exists \/ ~raw[i].exists) /\ job'[i] # "queued") =>
                 /\ job'[i] = "done"
                 /\ UNCHANGED <<raw, split, final, temp>>]_vars

\* C40 witness: the job of EURUSD, whose canonical file does not exist, has
\* ended with the staging file of EURUSD holding a partition and no canonical
\* file of EURUSD.
C40_Witness ==
    /\ phase = "merge_raw"
    /\ job["EURUSD"] = "done"
    /\ split["EURUSD"].exists /\ DOMAIN split["EURUSD"].tables # {}
    /\ raw["EURUSD"] = NoFile
    /\ job["GBPUSD"] = "open"

====
